---- MODULE Spec2Model ----
(***************************************************************************)
(* A model of the HTTP service of src/internal/httpapi/server.go: the vote *)
(* toggle engine (toggleDecisionVote) running against the PostgreSQL       *)
(* store, the response and decision creation handlers, and the slug        *)
(* generator.  The store is PostgreSQL reached through database/sql with   *)
(* the pgx driver; BeginTx(ctx, nil) opens a transaction at the server's   *)
(* default isolation level, READ COMMITTED: every statement reads the rows *)
(* committed when it starts plus the transaction's own writes, row locks   *)
(* and unique-index conflicts make a statement wait for the transaction    *)
(* holding them, and writes become visible to others at commit.            *)
(***************************************************************************)
EXTENDS Integers, Sequences, FiniteSets, TLC

VARIABLES
    decision_votes,   \* committed rows of table decision_votes
    tx,               \* one toggleDecisionVote call per slot: position and locals
    decisions,        \* rows of table decisions
    cr,               \* one handleCreateDecision request per slot
    responses,        \* rows of table responses
    rq,               \* one handleCreateResponse request per slot
    now,              \* the wall clock, in minutes
    sl,               \* one run of the slug generator on one title
    srv,              \* the Server's configuration, read from the environment by New
    ipLimiter,        \* the fixedWindowLimiter of the IP rate limit
    gw,               \* one HTTP request per slot on its way through the router
    wall,             \* the wall clock read by the rate limiter, in milliseconds
    stats,            \* one call of loadDecisionStats and its result
    rec,              \* one call of loadRecommendation and its result
    cm,               \* one call of analyzeCommentSentiment and its result
    legacy,           \* rows of table votes and the last handleCreateVote request
    al,               \* the mutex of the limiter and the Allow calls under way
    viewerLimiter,    \* the fixed-window limiter of the viewers
    vg                \* requests on their way through the viewer rate limit

vars == <<decision_votes, tx, decisions, cr, responses, rq, now, sl, srv, ipLimiter, gw, wall, stats, rec, cm, legacy, al, viewerLimiter, vg>>

\* what the steps of one component leave alone
VoteFrame == UNCHANGED <<decisions, cr, responses, rq, now, sl, srv, ipLimiter, gw, wall, stats, rec, cm, legacy, al, viewerLimiter, vg>>
CreateFrame == UNCHANGED <<decision_votes, tx, responses, rq, now, sl, srv, ipLimiter, gw, wall, stats, rec, cm, legacy, al, viewerLimiter, vg>>
ResponseFrame == UNCHANGED <<decision_votes, tx, decisions, cr, sl, srv, ipLimiter, gw, wall, stats, rec, cm, legacy, al, viewerLimiter, vg>>
SlugFrame ==
    UNCHANGED <<decision_votes, tx, decisions, cr, responses, rq, now, srv, ipLimiter, gw, wall, stats, rec, cm, legacy, al, viewerLimiter, vg>>
LegacyFrame ==
    UNCHANGED <<decision_votes, tx, decisions, cr, responses, rq, now, sl, srv, ipLimiter, gw,
                wall, stats, rec, cm, al, viewerLimiter, vg>>
LimiterFrame ==
    UNCHANGED <<decision_votes, tx, decisions, cr, responses, rq, now, sl, srv, gw, stats, rec,
                cm, legacy, viewerLimiter, vg>>
ViewerGateFrame ==
    UNCHANGED <<decision_votes, tx, decisions, cr, responses, rq, now, sl, srv, ipLimiter, gw,
                stats, rec, cm, legacy, al>>
GatewayFrame ==
    UNCHANGED <<decision_votes, tx, decisions, cr, responses, rq, now, sl, stats, rec, cm, legacy, al, viewerLimiter, vg>>
ScoreFrame == UNCHANGED <<tx, decisions, cr, rq, now, sl, srv, ipLimiter, gw, wall, legacy, al, viewerLimiter, vg>>

(***************************************************************************)
(* Bounds                                                                  *)
(***************************************************************************)
\* number of toggleDecisionVote calls, all of which may run concurrently
MaxToggles == 3
\* number of POST /api/decisions/{slug}/vote requests, all of which may run
\* concurrently, at most MaxToggles
MaxVoteRequests == 2
\* number of POST /api/decisions requests, all of which may run concurrently
MaxCreates == 2
\* longest title the slug generator is run on
MaxTitleLen == 4
\* number of POST /api/decisions/{slug}/responses requests, all of which may
\* run concurrently
MaxResponses == 2
\* the last minute of the clock
MaxClock == 2
\* the largest number of requests a rate limiter lets through per window
MaxLimit == 2
\* the largest number of calls of Allow followed one by one
MaxAllowCalls == 3
\* the largest number of calls of Allow whose goroutine ends while others run
MaxReturns == 2
\* the largest number of requests followed through the viewer rate limit
MaxViewerRequests == 3
\* number of viewers that may have responded to the decision that is scored
MaxRespondents == 2
\* number of pieces a comment is put together from
MaxCommentPieces == 4

ToggleIDs == 1..MaxToggles
\* the decisions toggled; one more decision holds a vote stored earlier
DecisionIDs == {"d1"}
ViewerIDs == {"va", "vb"}
\* handleDecisionVote lets only -1 and 1 through to toggleDecisionVote
VoteValues == {-1, 1}

StatusOK == 200
StatusCreated == 201
StatusBadRequest == 400
StatusNotFound == 404
StatusConflict == 409
StatusTooManyRequests == 429
StatusInternalServerError == 500

slugMaxAttempts == 8
slugMaxLength == 128
titleMinLength == 4
titleMaxLength == 100
descriptionMaxLength == 500
maxCommentLength == 180

\* an optional value (a nil pointer or a pointer to x)
Nil == {}
Some(x) == {x}
Deref(o) == CHOOSE x \in o : TRUE

(***************************************************************************)
(* Runes and text normalisation.  A string is a sequence of runes; a rune  *)
(* is named by itself when it is printable ASCII, and by its name or code  *)
(* point otherwise.                                                        *)
(***************************************************************************)
LowerAscii == {"a", "b", "c", "d", "e", "f", "g", "h", "i", "j", "k", "l", "m",
               "n", "o", "p", "q", "r", "s", "t", "u", "v", "w", "x", "y", "z"}
UpperAscii == {"A", "N", "O", "T", "Z"}
AsciiDigits == {"0", "1", "2", "3", "4", "5", "6", "7", "8", "9"}
\* U+00E9 and U+00C9 are the letters e-acute, lower and upper case
OtherLetters == {"U+00E9", "U+00C9"}

\* unicode.IsLetter, unicode.IsDigit, unicode.IsSpace, unicode.IsControl
IsLetter(r) == r \in LowerAscii \cup UpperAscii \cup OtherLetters
IsDigit(r) == r \in AsciiDigits
SpaceRunes == {" ", "LF", "CR", "TAB"}
IsSpace(r) == r \in SpaceRunes
IsControl(r) == r \in {"LF", "CR", "TAB", "BEL"}

\* the UTF-8 length of a rune
ByteLen(r) == IF r \in OtherLetters THEN 2 ELSE 1

RECURSIVE ByteLength(_)
ByteLength(s) == IF s = << >> THEN 0 ELSE ByteLen(Head(s)) + ByteLength(Tail(s))

\* strings.ToLower
ToLowerRune(r) ==
    CASE r = "A" -> "a"
      [] r = "N" -> "n"
      [] r = "O" -> "o"
      [] r = "T" -> "t"
      [] r = "Z" -> "z"
      [] r = "U+00C9" -> "U+00E9"
      [] OTHER -> r

ToLower(s) == [i \in 1..Len(s) |-> ToLowerRune(s[i])]

\* strings.TrimLeft and strings.TrimRight with a set of runes to cut
RECURSIVE TrimLeft(_, _)
TrimLeft(s, cut) ==
    IF s # << >> /\ Head(s) \in cut THEN TrimLeft(Tail(s), cut) ELSE s

RECURSIVE TrimRight(_, _)
TrimRight(s, cut) ==
    IF s # << >> /\ s[Len(s)] \in cut THEN TrimRight(SubSeq(s, 1, Len(s) - 1), cut) ELSE s

\* strings.TrimSpace
TrimSpace(s) == TrimRight(TrimLeft(s, SpaceRunes), SpaceRunes)

\* strings.Trim(s, "-")
TrimHyphens(s) == TrimRight(TrimLeft(s, {"-"}), {"-"})

\* strings.ReplaceAll(strings.ReplaceAll(input, "\r\n", "\n"), "\r", "\n")
RECURSIVE normalizeLineBreaks(_)
normalizeLineBreaks(s) ==
    IF s = << >> THEN << >>
    ELSE IF Head(s) = "CR"
         THEN IF Len(s) >= 2 /\ s[2] = "LF"
              THEN <<"LF">> \o normalizeLineBreaks(Tail(Tail(s)))
              ELSE <<"LF">> \o normalizeLineBreaks(Tail(s))
         ELSE <<Head(s)>> \o normalizeLineBreaks(Tail(s))

containsDisallowedControlChars(s, allowNewLines) ==
    \E i \in 1..Len(s) :
        /\ IsControl(s[i])
        /\ ~(allowNewLines /\ s[i] \in {"LF", "TAB"})

\* the result of a normaliser: ok with a value, or an error
Accepted(v) == [ok |-> TRUE, value |-> v]
Rejected == [ok |-> FALSE, value |-> << >>]

\* utf8.RuneCountInString is the length of the rune sequence
normalizeRequiredText(raw, minLen, maxLen, allowNewLines) ==
    LET normalized == TrimSpace(normalizeLineBreaks(raw))
    IN IF normalized = << >> THEN Rejected
       ELSE IF containsDisallowedControlChars(normalized, allowNewLines) THEN Rejected
       ELSE IF Len(normalized) < minLen \/ Len(normalized) > maxLen THEN Rejected
       ELSE Accepted(normalized)

\* raw is Nil or Some(text); the value accepted is Nil or Some(text)
normalizeOptionalText(raw, maxLen, allowNewLines) ==
    IF raw = Nil THEN [ok |-> TRUE, value |-> Nil]
    ELSE LET normalized == TrimSpace(normalizeLineBreaks(Deref(raw)))
         IN IF normalized = << >> THEN [ok |-> TRUE, value |-> Nil]
            ELSE IF containsDisallowedControlChars(normalized, allowNewLines)
                 THEN [ok |-> FALSE, value |-> Nil]
            ELSE IF Len(normalized) > maxLen THEN [ok |-> FALSE, value |-> Nil]
            ELSE [ok |-> TRUE, value |-> Some(normalized)]

\* closesAt.Before(time.Now().UTC().Add(-1 * time.Minute)) rejects
ClockSkewMinutes == 1

normalizeClosesAt(raw, clock) ==
    IF raw = Nil THEN [ok |-> TRUE, value |-> Nil]
    ELSE IF Deref(raw) < clock - ClockSkewMinutes THEN [ok |-> FALSE, value |-> Nil]
    ELSE [ok |-> TRUE, value |-> raw]

isValidSlug(slug) ==
    /\ ~(slug # << >> /\ Head(slug) = "-")
    /\ ~(slug # << >> /\ slug[Len(slug)] = "-")
    /\ \A i \in 1..Len(slug) : slug[i] \in LowerAscii \cup AsciiDigits \cup {"-"}

\* len(slug) counts bytes
normalizeSlugParam(raw) ==
    LET slug == TrimSpace(raw)
    IN IF slug = << >> THEN Rejected
       ELSE IF ByteLength(slug) > slugMaxLength THEN Rejected
       ELSE IF ~isValidSlug(slug) THEN Rejected
       ELSE Accepted(slug)

(***************************************************************************)
(* Request bodies.  A body is known by its length in bytes, by the offset  *)
(* at which its first JSON value ends (or at which its syntax breaks), by  *)
(* the field names of that value and by the number of JSON values in it;   *)
(* what the fields hold is given next to it.                               *)
(***************************************************************************)
maxCreateDecisionBodyBytes == 4096
maxResponseBodyBytes == 4096
maxVoteBodyBytes == 2048

createDecisionRequest == {"title", "description", "closes_at"}
decisionResponsePayload == {"viewer_id", "rating", "suggestion", "emoji", "comment"}
voteRequest == {"viewer_id", "value"}

Body(bytes, first, fields, values, wellFormed) ==
    [bytes |-> bytes, first |-> first, fields |-> fields, values |-> values,
     wellFormed |-> wellFormed]

\* one object of the fields known, in a few bytes
SmallBody(known) == Body(64, 64, known, 1, TRUE)

\* bodies that differ from the small one in length, fields, number of values
\* or syntax: the first two are accepted
BodyShapes(known, maxBytes) ==
    <<Body(maxBytes, maxBytes, known, 1, TRUE),
      Body(maxBytes, 64, known, 1, TRUE),
      Body(maxBytes + 1, maxBytes + 1, known, 1, TRUE),
      Body(maxBytes + 1, 64, known, 1, TRUE),
      Body(64, 64, known \cup {"is_admin"}, 1, TRUE),
      Body(128, 64, known, 2, TRUE),
      Body(64, 32, known, 1, FALSE)>>

\* a decoder that is content with the first value it reads
decodeFirstValue(body, maxBytes, known) ==
    IF body.wellFormed /\ body.first <= maxBytes /\ body.fields \subseteq known
    THEN [ok |-> TRUE, err |-> ""]
    ELSE [ok |-> FALSE, err |-> "invalid JSON"]

\* decodeJSON: MaxBytesReader fails the read that goes past maxBytes; the
\* first Decode reads as far as the end of the first value and rejects unknown
\* fields; the second Decode must find the end of the body and nothing else
decodeJSON(body, maxBytes, known) ==
    IF body.first > maxBytes
    THEN [ok |-> FALSE, err |-> "request body must be maxBytes bytes or fewer"]
    ELSE IF ~body.wellFormed THEN [ok |-> FALSE, err |-> "invalid JSON"]
    ELSE IF ~(body.fields \subseteq known) THEN [ok |-> FALSE, err |-> "invalid JSON"]
    ELSE IF body.values > 1 \/ body.bytes > maxBytes
    THEN [ok |-> FALSE,
          err |-> "invalid JSON: request body must contain a single JSON object"]
    ELSE [ok |-> TRUE, err |-> ""]

(***************************************************************************)
(* Slug generator                                                          *)
(***************************************************************************)
\* the loop of slugify: b is the builder, lastHyphen its flag
RECURSIVE slugifyLoop(_, _, _)
slugifyLoop(rest, b, lastHyphen) ==
    IF rest = << >> THEN b
    ELSE LET r == Head(rest)
         IN IF IsLetter(r) \/ IsDigit(r)
            THEN slugifyLoop(Tail(rest), Append(b, r), FALSE)
            ELSE IF (IsSpace(r) \/ r = "-" \/ r = "_") /\ ~lastHyphen /\ b # << >>
            THEN slugifyLoop(Tail(rest), Append(b, "-"), TRUE)
            ELSE slugifyLoop(Tail(rest), b, lastHyphen)

slugify(input) == TrimHyphens(slugifyLoop(ToLower(TrimSpace(input)), << >>, FALSE))

FallbackBase == <<"d", "e", "c", "i", "s", "i", "o", "n">>

baseSlugOf(title) == IF slugify(title) = << >> THEN FallbackBase ELSE slugify(title)

\* const letters = "abcdefghijklmnopqrstuvwxyz0123456789"
SuffixLetters ==
    <<"a", "b", "c", "d", "e", "f", "g", "h", "i", "j", "k", "l", "m",
      "n", "o", "p", "q", "r", "s", "t", "u", "v", "w", "x", "y", "z",
      "0", "1", "2", "3", "4", "5", "6", "7", "8", "9">>

SuffixLength == 5

\* what rand.Int returns at each position of one randSuffix call: a number
\* below len(letters), or -1 for an error of the random source
RandomDraws == {<<0, 0, 0, 0, 0>>, <<35, -1, 7, 25, 26>>}

randSuffix(length, draws) ==
    [i \in 1..length |-> IF draws[i] < 0 THEN SuffixLetters[1] ELSE SuffixLetters[draws[i] + 1]]

\* fmt.Sprintf("%s-%s", baseSlug, randSuffix(5))
slugWithSuffix(baseSlug, draws) == baseSlug \o <<"-">> \o randSuffix(SuffixLength, draws)

(***************************************************************************)
(* decisionVoteSummary and the aggregate query                             *)
(***************************************************************************)
ZeroSummary == [score |-> 0, upvotes |-> 0, downvotes |-> 0, my_vote |-> 0]

RECURSIVE SumValue(_)
SumValue(rows) ==
    IF rows = {} THEN 0
    ELSE LET r == CHOOSE x \in rows : TRUE
         IN r.value + SumValue(rows \ {r})

MaxOrZero(S) == IF S = {} THEN 0 ELSE CHOOSE m \in S : \A x \in S : x <= m

\* SELECT SUM(value), COUNT(*) FILTER (value = 1), COUNT(*) FILTER (value = -1),
\*        MAX(CASE WHEN $2 IS NOT NULL AND voter_viewer_id = $2 THEN value END)
\* FROM decision_votes WHERE decision_id = $1, over the rows the statement sees
\* viewerParam = nil: the query is run for no viewer
NoViewer == ""

\* the query without WHERE decision_id = $1
queryEveryDecision(rows, decisionID, viewerID) ==
    [score     |-> SumValue(rows),
     upvotes   |-> Cardinality({r \in rows : r.value = 1}),
     downvotes |-> Cardinality({r \in rows : r.value = -1}),
     my_vote   |-> MaxOrZero({r.value : r \in {x \in rows : viewerID # NoViewer
                                                            /\ x.voter_viewer_id = viewerID}})]

queryDecisionVoteSummary(rows, decisionID, viewerID) ==
    LET mine == {r \in rows : r.decision_id = decisionID}
    IN [score     |-> SumValue(mine),
        upvotes   |-> Cardinality({r \in mine : r.value = 1}),
        downvotes |-> Cardinality({r \in mine : r.value = -1}),
        my_vote   |-> MaxOrZero({r.value : r \in {x \in mine : viewerID # NoViewer
                                                            /\ x.voter_viewer_id = viewerID}})]

(***************************************************************************)
(* The store: transactions of toggleDecisionVote                           *)
(***************************************************************************)
\* a vote on another decision, cast before the calls modelled here
StoredEarlier == {[id |-> 0, decision_id |-> "d2", voter_viewer_id |-> "va", value |-> 1]}

IdleTx ==
    [pc |-> "idle", decisionID |-> "d1", viewerID |-> "va", value |-> 1,
     noRows |-> FALSE, voteID |-> 0, existingValue |-> 0, op |-> "none",
     summary |-> ZeroSummary, status |-> 0, err |-> "", fault |-> FALSE, solo |-> FALSE,
     body |-> SmallBody(voteRequest)]

InTx(t) == tx[t].pc \in {"select", "write", "summary", "commit"}

RowsOfPair(rows, d, v) ==
    {r \in rows : r.decision_id = d /\ r.voter_viewer_id = v}

\* a row lock taken by SELECT ... FOR UPDATE is held until the transaction ends
HoldsRowLock(u, id) ==
    /\ tx[u].pc \in {"write", "summary", "commit"}
    /\ ~tx[u].noRows
    /\ tx[u].voteID = id

\* a SELECT without FOR UPDATE never waits
SelectNeverWaits(t, id) == FALSE

\* FOR UPDATE: the statement waits while another transaction holds the row
SelectMustWait(t, id) == \E u \in ToggleIDs \ {t} : HoldsRowLock(u, id)

\* the rows a transaction's pending write leaves, applied to a table
ApplyWrite(rows, t) ==
    CASE tx[t].op = "insert" ->
            rows \cup {[id |-> t, decision_id |-> tx[t].decisionID,
                        voter_viewer_id |-> tx[t].viewerID, value |-> tx[t].value]}
      [] tx[t].op = "delete" -> {r \in rows : r.id # tx[t].voteID}
      [] tx[t].op = "update" ->
            {IF r.id = tx[t].voteID THEN [r EXCEPT !.value = tx[t].value] ELSE r : r \in rows}
      [] OTHER -> rows

\* READ COMMITTED: a statement of t sees the committed rows and t's own write
VisibleRows(t) == ApplyWrite(decision_votes, t)

\* UNIQUE (decision_id, voter_viewer_id): an insert waits for an uncommitted
\* insert of the same key and for an uncommitted delete of a row with that key
InsertMustWait(t) ==
    \E u \in ToggleIDs \ {t} :
        /\ tx[u].pc \in {"summary", "commit"}
        /\ \/ /\ tx[u].op = "insert"
              /\ tx[u].decisionID = tx[t].decisionID
              /\ tx[u].viewerID = tx[t].viewerID
           \/ /\ tx[u].op = "delete"
              /\ \E r \in RowsOfPair(decision_votes, tx[t].decisionID, tx[t].viewerID) :
                    r.id = tx[u].voteID

\* the table without its UNIQUE constraint
UniqueViolationDropped(t) == FALSE

\* the constraint itself: a committed row with the key makes the insert fail
UniqueViolation(t) ==
    RowsOfPair(decision_votes, tx[t].decisionID, tx[t].viewerID) # {}

\* value INT NOT NULL CHECK (value IN (-1, 1)), on the statements that write a value
CheckViolation(op, value) == op \in {"insert", "update"} /\ value \notin VoteValues

\* a switch whose second case writes the value again instead of deleting the row
WriteOpNoRemove(noRows, existingValue, value) ==
    IF noRows THEN "insert" ELSE "update"

\* the switch of toggleDecisionVote
WriteOp(noRows, existingValue, value) ==
    IF noRows THEN "insert"
    ELSE IF existingValue = value THEN "delete"
    ELSE "update"

\* statements run outside a transaction: a failure leaves the write in place
RollbackKeepsWrite(rows, t) == ApplyWrite(rows, t)

\* defer tx.Rollback(): the pending write is dropped, the table stays as it was
Rollback(rows, t) == rows

\* return decisionVoteSummary{}, 500, errors.New(message): the call is over and its
\* locals are gone
Fail(t, message, fault) ==
    [IdleTx EXCEPT !.pc = "done", !.status = StatusInternalServerError,
                   !.err = message, !.fault = fault, !.body = tx[t].body]

\* return summary, 200, nil
Succeed(t) ==
    [IdleTx EXCEPT !.pc = "done", !.status = StatusOK, !.summary = tx[t].summary,
                   !.decisionID = tx[t].decisionID, !.viewerID = tx[t].viewerID,
                   !.value = tx[t].value, !.solo = tx[t].solo, !.body = tx[t].body]

(***************************************************************************)
(* Steps of toggleDecisionVote                                             *)
(***************************************************************************)
\* tx, err := s.db.BeginTx(ctx, nil), in a call toggleDecisionVote(d, v, val)
StartTx(t, d, v, val) ==
    /\ \E ok \in BOOLEAN :
         LET quiet == \A u \in ToggleIDs : ~InTx(u)
             started == [IdleTx EXCEPT !.decisionID = d, !.viewerID = v, !.value = val,
                                       !.body = tx[t].body]
         IN tx' = [u \in ToggleIDs |->
                     IF u = t
                     THEN IF ok
                          THEN [started EXCEPT !.pc = "select", !.solo = quiet]
                          ELSE Fail(t, "failed to start vote transaction", TRUE)
                     ELSE IF ok /\ InTx(u) THEN [tx[u] EXCEPT !.solo = FALSE] ELSE tx[u]]
    /\ decision_votes' = decision_votes

\* a call of toggleDecisionVote for a decision that exists, a viewer id that
\* parsed and a value that passed the handler
BeginTx(t) ==
    /\ VoteFrame
    /\ tx[t].pc = "idle"
    /\ \A u \in ToggleIDs : u < t => tx[u].pc # "idle"
    /\ \E d \in DecisionIDs, v \in ViewerIDs, val \in VoteValues : StartTx(t, d, v, val)

\* SELECT id, value FROM decision_votes WHERE ... FOR UPDATE
SelectForUpdate(t) ==
    /\ VoteFrame
    /\ tx[t].pc = "select"
    /\ LET found == RowsOfPair(decision_votes, tx[t].decisionID, tx[t].viewerID)
       IN \E ok \in BOOLEAN :
            IF ~ok
            THEN /\ tx' = [tx EXCEPT ![t] = Fail(t, "failed to load vote", TRUE)]
                 /\ decision_votes' = Rollback(decision_votes, t)
            ELSE IF found = {}
            THEN /\ tx' = [tx EXCEPT ![t].pc = "write", ![t].noRows = TRUE]
                 /\ decision_votes' = decision_votes
            ELSE \E r \in found :
                 /\ ~SelectMustWait(t, r.id)
                 /\ tx' = [tx EXCEPT ![t].pc = "write", ![t].noRows = FALSE,
                                     ![t].voteID = r.id, ![t].existingValue = r.value]
                 /\ decision_votes' = decision_votes

\* the INSERT, DELETE or UPDATE chosen by the switch
ExecWrite(t) ==
    /\ VoteFrame
    /\ tx[t].pc = "write"
    /\ LET op == WriteOp(tx[t].noRows, tx[t].existingValue, tx[t].value)
           message == CASE op = "insert" -> "failed to insert vote"
                        [] op = "delete" -> "failed to remove vote"
                        [] OTHER -> "failed to update vote"
       IN \E ok \in BOOLEAN :
            IF ~ok
            THEN /\ tx' = [tx EXCEPT ![t] = Fail(t, message, TRUE)]
                 /\ decision_votes' = Rollback(decision_votes, t)
            ELSE IF CheckViolation(op, tx[t].value)
            THEN /\ tx' = [tx EXCEPT ![t] = Fail(t, message, FALSE)]
                 /\ decision_votes' = Rollback(decision_votes, t)
            ELSE IF op = "insert"
            THEN /\ ~InsertMustWait(t)
                 /\ IF UniqueViolation(t)
                    THEN /\ tx' = [tx EXCEPT ![t] = Fail(t, message, FALSE)]
                         /\ decision_votes' = Rollback(decision_votes, t)
                    ELSE /\ tx' = [tx EXCEPT ![t].pc = "summary", ![t].op = op]
                         /\ decision_votes' = decision_votes
            ELSE /\ tx' = [tx EXCEPT ![t].pc = "summary", ![t].op = op]
                 /\ decision_votes' = decision_votes

\* summary, err := s.queryDecisionVoteSummary(ctx, tx, decisionID, &viewerID)
QuerySummary(t) ==
    /\ VoteFrame
    /\ tx[t].pc = "summary"
    /\ \E ok \in BOOLEAN :
         IF ~ok
         THEN /\ tx' = [tx EXCEPT ![t] = Fail(t, "failed to summarize vote", TRUE)]
              /\ decision_votes' = Rollback(decision_votes, t)
         ELSE /\ tx' = [tx EXCEPT ![t].pc = "commit",
                                  ![t].summary = queryDecisionVoteSummary(
                                      VisibleRows(t), tx[t].decisionID, tx[t].viewerID)]
              /\ decision_votes' = decision_votes

\* tx.Commit(), then return summary, 200, nil
Commit(t) ==
    /\ VoteFrame
    /\ tx[t].pc = "commit"
    /\ \E ok \in BOOLEAN :
         IF ~ok
         THEN /\ tx' = [tx EXCEPT ![t] = Fail(t, "failed to commit vote", TRUE)]
              /\ decision_votes' = Rollback(decision_votes, t)
         ELSE /\ tx' = [tx EXCEPT ![t] = Succeed(t)]
              /\ decision_votes' = ApplyWrite(decision_votes, t)

NextVotes ==
    \E t \in ToggleIDs :
        \/ BeginTx(t)
        \/ SelectForUpdate(t)
        \/ ExecWrite(t)
        \/ QuerySummary(t)
        \/ Commit(t)

(***************************************************************************)
(* Reference semantics of a toggle, used to state the claims               *)
(***************************************************************************)
Pairs == DecisionIDs \X ViewerIDs

\* the value a table stores for a pair, 0 when it stores none
PairValue(rows, d, v) ==
    LET found == RowsOfPair(rows, d, v)
    IN IF found = {} THEN 0 ELSE (CHOOSE r \in found : TRUE).value

Ballot(rows) == [p \in Pairs |-> PairValue(rows, p[1], p[2])]

ToggleValue(before, value) == IF before = value THEN 0 ELSE value

RECURSIVE SumBallot(_, _, _)
SumBallot(b, d, viewers) ==
    IF viewers = {} THEN 0
    ELSE LET v == CHOOSE x \in viewers : TRUE
         IN b[<<d, v>>] + SumBallot(b, d, viewers \ {v})

BallotSummary(b, d, v) ==
    [score     |-> SumBallot(b, d, ViewerIDs),
     upvotes   |-> Cardinality({x \in ViewerIDs : b[<<d, x>>] = 1}),
     downvotes |-> Cardinality({x \in ViewerIDs : b[<<d, x>>] = -1}),
     my_vote   |-> b[<<d, v>>]]

RECURSIVE Perms(_)
Perms(S) ==
    IF S = {} THEN {<< >>}
    ELSE UNION {{<<x>> \o rest : rest \in Perms(S \ {x})} : x \in S}

\* the ballot after the toggles of order are applied to b one at a time
RECURSIVE SerialBallot(_, _)
SerialBallot(b, order) ==
    IF order = << >> THEN b
    ELSE LET t == Head(order)
             p == <<tx[t].decisionID, tx[t].viewerID>>
         IN SerialBallot([b EXCEPT ![p] = ToggleValue(b[p], tx[t].value)], Tail(order))

\* every toggle of order returned the summary of the ballot right after it
RECURSIVE SerialSummaries(_, _)
SerialSummaries(b, order) ==
    \/ order = << >>
    \/ LET t == Head(order)
           p == <<tx[t].decisionID, tx[t].viewerID>>
           after == [b EXCEPT ![p] = ToggleValue(b[p], tx[t].value)]
       IN /\ tx[t].summary = BallotSummary(after, p[1], p[2])
          /\ SerialSummaries(after, Tail(order))

Succeeded == {t \in ToggleIDs : tx[t].pc = "done" /\ tx[t].status = StatusOK}
Quiescent == \A t \in ToggleIDs : ~InTx(t)
EmptyBallot == [p \in Pairs |-> 0]

\* every vote of decision d in the table or in a call is of one viewer
SingleVoter(d) ==
    \E v \in ViewerIDs :
        /\ \A r \in decision_votes : r.decision_id = d => r.voter_viewer_id = v
        /\ \A t \in ToggleIDs :
              (InTx(t) \/ t \in Succeeded) /\ tx[t].decisionID = d => tx[t].viewerID = v

(***************************************************************************)
(* Claims about the vote toggle engine                                     *)
(***************************************************************************)
\* C1: under any interleaving of toggles the table holds at most one row per
\* (decision, viewer), and for a decision voted on by one viewer every stored
\* and every returned score is -1, 0 or +1.
C1_OneRowPerPair ==
    /\ \A p \in Pairs : Cardinality(RowsOfPair(decision_votes, p[1], p[2])) <= 1
    /\ \A d \in DecisionIDs :
          SingleVoter(d) =>
             /\ SumValue({r \in decision_votes : r.decision_id = d}) \in {-1, 0, 1}
             /\ \A t \in Succeeded : tx[t].decisionID = d => tx[t].summary.score \in {-1, 0, 1}

\* two toggles of one pair race from the state with no row, and one of them
\* has committed its insert while the other still holds its stale read
C1_Witness ==
    \E t, u \in ToggleIDs :
        /\ t # u
        /\ t \in Succeeded
        /\ tx[u].pc = "write" /\ tx[u].noRows
        /\ tx[u].decisionID = tx[t].decisionID /\ tx[u].viewerID = tx[t].viewerID
        /\ RowsOfPair(decision_votes, tx[t].decisionID, tx[t].viewerID) # {}

\* C2: a toggle that runs with no concurrent toggle makes exactly one of the
\* transitions no vote -> value, same value -> no vote, opposite value ->
\* value, and returns the summary of the table it leaves: +1 on an unvoted
\* decision gives score 1 / upvotes 1, +1 again gives 0 / 0, -1 after +1 gives
\* score -1 / upvotes 0 / downvotes 1.
C2_Step(t) ==
    LET d == tx[t].decisionID
        v == tx[t].viewerID
        val == tx[t].value
        before == PairValue(decision_votes, d, v)
        after == PairValue(decision_votes', d, v)
        others == {r \in decision_votes : r.decision_id = d /\ r.voter_viewer_id # v}
        got == tx'[t].summary
    IN /\ after = ToggleValue(before, val)
       /\ before = 0 => Cardinality(decision_votes') = Cardinality(decision_votes) + 1
       /\ before = val => Cardinality(decision_votes') = Cardinality(decision_votes) - 1
       /\ before = -val => /\ Cardinality(decision_votes') = Cardinality(decision_votes)
                           /\ {r.id : r \in decision_votes'} = {r.id : r \in decision_votes}
       /\ \A r \in decision_votes :
             ~(r.decision_id = d /\ r.voter_viewer_id = v) => r \in decision_votes'
       /\ got = queryDecisionVoteSummary(decision_votes', d, v)
       /\ others = {} =>
             /\ before = 0 /\ val = 1 => got = [score |-> 1, upvotes |-> 1, downvotes |-> 0, my_vote |-> 1]
             /\ before = 1 /\ val = 1 => got = ZeroSummary
             /\ before = 1 /\ val = -1 => got = [score |-> -1, upvotes |-> 0, downvotes |-> 1, my_vote |-> -1]

C2_ToggleTransitions ==
    [][\A t \in ToggleIDs :
          (tx[t].pc = "commit" /\ tx[t].solo /\ tx'[t].pc = "done" /\ tx'[t].status = StatusOK)
             => C2_Step(t)]_vars

\* vote(+1) then vote(-1) by one viewer, each run alone: the flip has committed
C2_Witness ==
    \E t, u \in Succeeded :
        /\ t # u
        /\ tx[t].solo /\ tx[u].solo
        /\ tx[t].viewerID = tx[u].viewerID
        /\ tx[t].value = 1 /\ tx[t].summary.score = 1
        /\ tx[u].value = -1 /\ tx[u].summary = [score |-> -1, upvotes |-> 0, downvotes |-> 1, my_vote |-> -1]
        /\ \E r \in decision_votes : r.id = t /\ r.value = -1

\* C3: a toggle that loses the race for its pair blocks and then succeeds: with
\* the store working, no toggle returns an error, whatever the starting state.
C3_LoserSucceeds ==
    \A t \in ToggleIDs : tx[t].pc = "done" /\ ~tx[t].fault => tx[t].status = StatusOK

\* C4: once the toggles have returned, some serial order of the successful
\* ones explains every returned summary as the aggregate right after its toggle.
C4_SummariesSerial ==
    Quiescent => \E order \in Perms(Succeeded) : SerialSummaries(EmptyBallot, order)

\* C5: once the toggles have returned, the rows left are those of the
\* successful toggles applied one at a time in some order; and every toggle
\* decides from the row committed at the time of its read.
C5_Final ==
    Quiescent =>
       \E order \in Perms(Succeeded) : Ballot(decision_votes) = SerialBallot(EmptyBallot, order)

C5_Read(t) ==
    LET before == PairValue(decision_votes, tx[t].decisionID, tx[t].viewerID)
    IN /\ tx'[t].noRows <=> before = 0
       /\ ~tx'[t].noRows => tx'[t].existingValue = before

C5_Serializable ==
    /\ []C5_Final
    /\ [][\A t \in ToggleIDs : tx[t].pc = "select" /\ tx'[t].pc = "write" => C5_Read(t)]_vars

\* two toggles of one pair that already has a row, both past the read at once
\* is impossible; the witness is the second one reading after the first left
C5_Witness ==
    \E t, u \in ToggleIDs :
        /\ t # u
        /\ t \in Succeeded /\ tx[t].decisionID = tx[u].decisionID /\ tx[t].viewerID = tx[u].viewerID
        /\ ~tx[t].solo
        /\ tx[u].pc = "commit" /\ tx[u].op \in {"delete", "update"}

\* C6: a toggle that fails at any step leaves the table as it was and returns
\* an error and no summary; a step that fails makes the toggle fail.
C6_AllOrNothing ==
    [][\A t \in ToggleIDs :
          /\ (tx[t].pc # "done" /\ tx'[t].pc = "done" /\ tx'[t].status # StatusOK)
                => /\ decision_votes' = decision_votes
                   /\ tx'[t].summary = ZeroSummary
                   /\ tx'[t].err # ""
          /\ tx'[t].fault => tx'[t].pc = "done" /\ tx'[t].status = StatusInternalServerError]_vars

\* the commit itself failed, after the write and the summary query had run
C6_Witness ==
    \E t \in ToggleIDs : tx[t].pc = "done" /\ tx[t].err = "failed to commit vote"

(***************************************************************************)
(* handleCreateDecision                                                    *)
(***************************************************************************)
CreateIDs == 1..MaxCreates

Title1 == <<"a", "b", " ", "c", "d">>
Title2 == <<" ", "A", "B", "_", "-", "c", "d", "!">>
Title3 == <<"!", "!", "!", "!">>

\* requests: three that pass validation (the first two have the same base
\* slug, the third has an empty one), one per validation failure, and one per
\* shape of body, the last of them with a title that is refused as well
CreateInputs ==
    LET small == SmallBody(createDecisionRequest)
        shapes == BodyShapes(createDecisionRequest, maxCreateDecisionBodyBytes)
    IN {[body |-> small, title |-> Title1, description |-> Nil, closes_at |-> Nil],
        [body |-> small, title |-> Title2, description |-> Some(<<"a", "CR", "LF", "b">>), closes_at |-> Some(1)],
        [body |-> small, title |-> Title3, description |-> Some(<<" ">>), closes_at |-> Some(3)],
        [body |-> small, title |-> <<" ", "a", "b", "c", " ">>, description |-> Nil, closes_at |-> Nil],
        [body |-> small, title |-> <<"a", "b", "LF", "c", "d">>, description |-> Nil, closes_at |-> Nil],
        [body |-> small, title |-> Title1, description |-> Some(<<"a", "BEL">>), closes_at |-> Nil],
        [body |-> small, title |-> Title1, description |-> Nil, closes_at |-> Some(0)]}
       \cup {[body |-> shapes[k], title |-> Title1, description |-> Nil, closes_at |-> Nil] :
                k \in DOMAIN shapes}
       \cup {[body |-> shapes[6], title |-> <<"a", "b", "LF", "c", "d">>, description |-> Nil,
              closes_at |-> Nil]}

\* body is the body of the request as the client sent it
IdleCreate ==
    [pc |-> "idle", title |-> << >>, description |-> Nil, closesAt |-> Nil,
     baseSlug |-> << >>, i |-> 0, attempts |-> 0, violations |-> 0,
     status |-> 0, slug |-> << >>, body |-> SmallBody(createDecisionRequest)]

\* an answer of handleCreateDecision; attempts and violations count the
\* INSERT statements it ran and the unique violations among them
CreateAnswer(c, status, slug, attempts, violations) ==
    [IdleCreate EXCEPT !.pc = "done", !.status = status, !.slug = slug,
                       !.attempts = attempts, !.violations = violations,
                       !.body = cr[c].body]

\* the loop test of: for i := 0; i < slugMaxAttempts; i++, tested one too late
LoopRunsOnceMore(i) == i <= slugMaxAttempts

\* for i := 0; i < slugMaxAttempts; i++
LoopRuns(i) == i < slugMaxAttempts

\* a table decisions without UNIQUE on slug
SlugNeverTaken(slug) == FALSE

\* slug TEXT UNIQUE NOT NULL
SlugTaken(slug) == \E d \in decisions : d.slug = slug

\* decoding and validation, up to the loop
StartCreateDecision(c) ==
    /\ CreateFrame
    /\ cr[c].pc = "idle"
    /\ \A u \in CreateIDs : u < c => cr[u].pc # "idle"
    /\ \E req \in CreateInputs :
         LET title == normalizeRequiredText(req.title, titleMinLength, titleMaxLength, FALSE)
             description == normalizeOptionalText(req.description, descriptionMaxLength, TRUE)
             closesAt == normalizeClosesAt(req.closes_at, now)
             decoded == decodeJSON(req.body, maxCreateDecisionBodyBytes, createDecisionRequest)
         IN IF ~decoded.ok \/ ~title.ok \/ ~description.ok \/ ~closesAt.ok
            THEN cr' = [cr EXCEPT ![c] =
                          [CreateAnswer(c, StatusBadRequest, << >>, 0, 0)
                             EXCEPT !.body = req.body]]
            ELSE cr' = [cr EXCEPT ![c] =
                          [IdleCreate EXCEPT !.pc = "insert", !.title = title.value,
                                             !.body = req.body,
                                             !.description = description.value,
                                             !.closesAt = closesAt.value,
                                             !.baseSlug = baseSlugOf(title.value)]]
    /\ decisions' = decisions

\* one pass of the loop: a fresh suffix and the INSERT INTO decisions
InsertDecision(c) ==
    /\ CreateFrame
    /\ cr[c].pc = "insert"
    /\ LoopRuns(cr[c].i)
    /\ \E draws \in RandomDraws, ok \in BOOLEAN :
         LET slug == slugWithSuffix(cr[c].baseSlug, draws)
             attempts == cr[c].attempts + 1
         IN IF ~ok
            THEN /\ cr' = [cr EXCEPT ![c] = CreateAnswer(c, StatusInternalServerError, << >>,
                                                          attempts, cr[c].violations)]
                 /\ decisions' = decisions
            ELSE IF SlugTaken(slug)
            THEN /\ cr' = [cr EXCEPT ![c] =
                             IF LoopRuns(cr[c].i + 1)
                             THEN [cr[c] EXCEPT !.i = cr[c].i + 1, !.attempts = attempts,
                                                !.violations = cr[c].violations + 1]
                             ELSE CreateAnswer(c, StatusConflict, << >>, attempts,
                                               cr[c].violations + 1)]
                 /\ decisions' = decisions
            ELSE /\ cr' = [cr EXCEPT ![c] = CreateAnswer(c, StatusCreated, slug, attempts,
                                                          cr[c].violations)]
                 /\ decisions' = decisions \cup
                       {[id |-> ToString(c), slug |-> slug, title |-> cr[c].title,
                         description |-> cr[c].description, closes_at |-> cr[c].closesAt]}

NextCreate ==
    \E c \in CreateIDs :
        \/ StartCreateDecision(c)
        \/ InsertDecision(c)

(***************************************************************************)
(* handleCreateResponse                                                    *)
(***************************************************************************)
ResponseIDs == 1..MaxResponses

\* the emoji of the table: U+1FAE0 melting face, U+1F62D crying face,
\* U+1F62C grimacing face, U+1F604 smiling face, U+1FAE1 saluting face
emojiRatings ==
    ("U+1FAE0" :> 1) @@ ("U+1F62D" :> 2) @@ ("U+1F62C" :> 3) @@ ("U+1F604" :> 4) @@ ("U+1FAE1" :> 5)

SlugOpen == <<"o", "p", "e", "n", "-", "a", "a", "a", "a", "a">>
SlugClosing == <<"s", "o", "o", "n", "-", "a", "a", "a", "a", "a">>
SlugUnknown == <<"n", "o", "n", "e", "-", "a", "a", "a", "a", "a">>

\* two decisions created earlier: one without a close timestamp, one that
\* closes at minute 1
StoredDecisions ==
    {[id |-> "d1", slug |-> SlugOpen, title |-> <<"o", "p", "e", "n">>,
      description |-> Nil, closes_at |-> Nil],
     [id |-> "d2", slug |-> SlugClosing, title |-> <<"s", "o", "o", "n">>,
      description |-> Nil, closes_at |-> Some(1)]}

\* request bodies that pass the validation of the body: two payloads for every
\* slug and viewer, the client-sent rating differing from the emoji's
GoodPayloads ==
    {[rating |-> 1, suggestion |-> 3, emoji |-> <<" ", "U+1FAE1">>,
      comment |-> Some(<<" ", "o", "k", "CR", "LF">>)],
     [rating |-> 5, suggestion |-> 1, emoji |-> <<"U+1FAE0">>, comment |-> Nil]}

ResponseRequest(slug, body, viewer_id, payload) ==
    [slug |-> slug, body |-> body, viewer_id |-> viewer_id, rating |-> payload.rating,
     suggestion |-> payload.suggestion, emoji |-> payload.emoji, comment |-> payload.comment]

ResponseInputs ==
    {ResponseRequest(slug, SmallBody(decisionResponsePayload), v, p) :
        slug \in {SlugOpen, SlugClosing, SlugUnknown}, v \in ViewerIDs, p \in GoodPayloads}
    \cup
    (LET good == CHOOSE p \in GoodPayloads : p.comment = Nil
         ok == SmallBody(decisionResponsePayload)
         shapes == BodyShapes(decisionResponsePayload, maxResponseBodyBytes)
     IN {ResponseRequest(SlugOpen, shapes[k], "va", good) : k \in DOMAIN shapes}
        \cup
        {ResponseRequest(SlugOpen, shapes[4], "not-a-uuid", [good EXCEPT !.suggestion = 0]),
         ResponseRequest(<<"O", "p", "e", "n">>, ok, "va", good),
         ResponseRequest(SlugOpen, ok, "not-a-uuid", good),
         ResponseRequest(SlugOpen, ok, "va", [good EXCEPT !.suggestion = 0]),
         ResponseRequest(SlugOpen, ok, "va", [good EXCEPT !.suggestion = 4]),
         ResponseRequest(SlugOpen, ok, "va", [good EXCEPT !.emoji = <<"U+1F921">>]),
         ResponseRequest(SlugOpen, ok, "va", [good EXCEPT !.emoji = <<"U+1FAE0", "U+1FAE0">>]),
         ResponseRequest(SlugOpen, ok, "vb", [good EXCEPT !.rating = 9]),
         ResponseRequest(SlugOpen, ok, "vb", [good EXCEPT !.comment = Some(<<"a", "BEL">>)]),
         ResponseRequest(SlugUnknown, ok, "vb", [good EXCEPT !.comment = Some(<<"a", "BEL">>)]),
         ResponseRequest(SlugClosing, ok, "vb", [good EXCEPT !.comment = Some(<<"a", "BEL">>)])})

\* uuid.Parse(strings.TrimSpace(req.ViewerID))
IsUUID(raw) == raw \in ViewerIDs

normalizeComment(comment) ==
    IF comment = Nil THEN [ok |-> TRUE, value |-> Nil]
    ELSE LET trimmed == TrimSpace(normalizeLineBreaks(Deref(comment)))
         IN IF trimmed = << >> THEN [ok |-> TRUE, value |-> Nil]
            ELSE IF containsDisallowedControlChars(trimmed, TRUE) THEN [ok |-> FALSE, value |-> Nil]
            ELSE IF Len(trimmed) > maxCommentLength THEN [ok |-> FALSE, value |-> Nil]
            ELSE [ok |-> TRUE, value |-> Some(trimmed)]

\* emojiRatings[emoji]: a string is a key of the table when it is one rune, a
\* rune of the table
EmojiKnown(emoji) == Len(emoji) = 1 /\ emoji[1] \in DOMAIN emojiRatings

\* a handler that stores the rating of the request
ClientRating(req, emoji) == req.rating

\* rating, ok := emojiRatings[emoji]: the rating stored for a request
RatingFor(req, emoji) == emojiRatings[emoji[1]]

\* sent is the rating and the emoji of the request as the client sent them
IdleResponse ==
    [pc |-> "idle", slug |-> << >>, viewerID |-> "va", suggestion |-> 0, emoji |-> << >>,
     rating |-> 0, comment |-> Nil, decisionID |-> "", status |-> 0, err |-> "",
     fault |-> FALSE,
     sent |-> [rating |-> 0, emoji |-> << >>, body |-> SmallBody(decisionResponsePayload)]]

\* writeError or writeJSON and return: the request is over
ResponseAnswer(status, err, fault) ==
    [IdleResponse EXCEPT !.pc = "done", !.status = status, !.err = err, !.fault = fault]

\* a lookup that leaves out the decisions whose close time has passed
findOpenDecisionBySlug(slug) ==
    {d \in decisions :
        d.slug = slug /\ ~(d.closes_at # Nil /\ now > Deref(d.closes_at))}

\* SELECT ... FROM decisions WHERE slug = $1
findDecisionBySlug(slug) == {d \in decisions : d.slug = slug}

\* a decision that never closes
IsClosedNever(decision, clock) == FALSE

\* decision.ClosesAt != nil && time.Now().After(decision.ClosesAt.UTC())
IsClosed(decision, clock) ==
    decision.closes_at # Nil /\ clock > Deref(decision.closes_at)

\* a table responses without UNIQUE (decision_id, viewer_id)
NoResponseConstraint(decisionID, viewerID) == FALSE

\* UNIQUE (decision_id, viewer_id)
ResponseUniqueViolation(decisionID, viewerID) ==
    \E r \in responses : r.decision_id = decisionID /\ r.viewer_id = viewerID

\* the slug parameter, the body, the viewer id and its rate limit (whose answer
\* is an input here), the suggestion and the emoji
StartResponseWith(q, inputs) ==
    /\ ResponseFrame
    /\ rq[q].pc = "idle"
    /\ \A u \in ResponseIDs : u < q => rq[u].pc # "idle"
    /\ \E req \in inputs, allowed \in BOOLEAN :
         LET slug == normalizeSlugParam(req.slug)
             emoji == TrimSpace(req.emoji)
             decoded == decodeJSON(req.body, maxResponseBodyBytes, decisionResponsePayload)
             step ==
               IF ~slug.ok THEN ResponseAnswer(StatusBadRequest, "slug is invalid", FALSE)
               ELSE IF ~decoded.ok THEN ResponseAnswer(StatusBadRequest, decoded.err, FALSE)
               ELSE IF ~IsUUID(req.viewer_id)
                    THEN ResponseAnswer(StatusBadRequest, "viewer_id must be a valid UUID", FALSE)
               ELSE IF ~allowed THEN ResponseAnswer(StatusTooManyRequests, "rate limit exceeded", FALSE)
               ELSE IF req.suggestion < 1 \/ req.suggestion > 3
                    THEN ResponseAnswer(StatusBadRequest, "suggestion must be 1, 2, or 3", FALSE)
               ELSE IF ~EmojiKnown(emoji)
                    THEN ResponseAnswer(StatusBadRequest, "emoji is invalid", FALSE)
               ELSE [IdleResponse EXCEPT !.pc = "find", !.slug = slug.value,
                                         !.viewerID = req.viewer_id,
                                         !.suggestion = req.suggestion, !.emoji = emoji,
                                         !.rating = RatingFor(req, emoji),
                                         !.comment = req.comment]
         IN rq' = [rq EXCEPT ![q] =
                      [step EXCEPT !.sent = [rating |-> req.rating, emoji |-> req.emoji,
                                             body |-> req.body]]]
    /\ UNCHANGED <<responses, now>>

\* the handler over the requests of the response endpoint's clients
StartResponse(q) == StartResponseWith(q, ResponseInputs)

\* findDecisionBySlug, the closed check against the clock, normalizeComment
FindDecision(q) ==
    /\ ResponseFrame
    /\ rq[q].pc = "find"
    /\ \E ok \in BOOLEAN :
         LET found == findDecisionBySlug(rq[q].slug)
             comment == normalizeComment(rq[q].comment)
             step ==
               IF ~ok THEN ResponseAnswer(StatusInternalServerError, "failed to load decision", TRUE)
               ELSE IF found = {} THEN ResponseAnswer(StatusNotFound, "decision not found", FALSE)
               ELSE IF IsClosed(Deref(found), now)
                    THEN ResponseAnswer(StatusConflict, "decision is closed", FALSE)
               ELSE IF ~comment.ok
                    THEN ResponseAnswer(StatusBadRequest, "comment is invalid", FALSE)
               ELSE [rq[q] EXCEPT !.pc = "insert", !.decisionID = Deref(found).id,
                                  !.comment = comment.value]
         IN rq' = [rq EXCEPT ![q] = [step EXCEPT !.sent = rq[q].sent]]
    /\ UNCHANGED <<responses, now>>

\* a statement that replaces the responses of the decision by the new one
ReplaceResponses(rows, row) ==
    {r \in rows : r.decision_id # row.decision_id} \cup {row}

\* INSERT INTO responses (...) VALUES (...): the table gains the row
InsertIntoResponses(rows, row) == rows \cup {row}

\* INSERT INTO responses, one statement, committed on its own; created_at is
\* the DEFAULT now() of the column
InsertResponse(q) ==
    /\ ResponseFrame
    /\ rq[q].pc = "insert"
    /\ \E storeErr \in {"none", "undefined column", "other"} :
         LET step ==
               IF storeErr = "undefined column"
               THEN ResponseAnswer(StatusInternalServerError, "database schema is out of date", TRUE)
               ELSE IF storeErr = "other"
               THEN ResponseAnswer(StatusInternalServerError, "failed to create response", TRUE)
               ELSE IF ResponseUniqueViolation(rq[q].decisionID, rq[q].viewerID)
               THEN ResponseAnswer(StatusConflict,
                                   "viewer already submitted a response for this decision", FALSE)
               ELSE ResponseAnswer(StatusCreated, "", FALSE)
         IN /\ rq' = [rq EXCEPT ![q] = [step EXCEPT !.sent = rq[q].sent]]
            /\ responses' =
                  IF step.status = StatusCreated
                  THEN InsertIntoResponses(responses,
                         [id |-> q, decision_id |-> rq[q].decisionID, viewer_id |-> rq[q].viewerID,
                          rating |-> rq[q].rating, suggestion |-> rq[q].suggestion,
                          emoji |-> rq[q].emoji, comment |-> rq[q].comment,
                          created_at |-> now])
                  ELSE responses
    /\ now' = now

\* a minute passes
Tick ==
    /\ ResponseFrame
    /\ now < MaxClock
    /\ now' = now + 1
    /\ UNCHANGED <<responses, rq>>

NextResponses ==
    \/ \E q \in ResponseIDs :
          \/ StartResponse(q)
          \/ FindDecision(q)
          \/ InsertResponse(q)
    \/ Tick

(***************************************************************************)
(* handleDecisionVote                                                      *)
(***************************************************************************)
VoteRequest(slug, body, viewer_id, value) ==
    [slug |-> slug, body |-> body, viewer_id |-> viewer_id, value |-> value]

\* requests: the two values for every viewer on the open decision, one per
\* refusal of the handler, and one per shape of body, the last of them with a
\* value that is refused as well
VoteInputs ==
    LET ok == SmallBody(voteRequest)
        shapes == BodyShapes(voteRequest, maxVoteBodyBytes)
    IN {VoteRequest(SlugOpen, ok, v, val) : v \in ViewerIDs, val \in VoteValues}
       \cup {VoteRequest(SlugOpen, ok, "va", val) : val \in {-2, 0, 2}}
       \cup {VoteRequest(SlugOpen, shapes[k], "va", 1) : k \in DOMAIN shapes}
       \cup {VoteRequest(<<"O", "p", "e", "n">>, ok, "va", 1),
             VoteRequest(SlugUnknown, ok, "va", 1),
             VoteRequest(SlugOpen, ok, "not-a-uuid", 1),
             VoteRequest(SlugOpen, shapes[5], "vb", 0)}

\* writeError and return, before toggleDecisionVote is called
VoteAnswer(req, status, err, fault) ==
    [IdleTx EXCEPT !.pc = "done", !.status = status, !.err = err, !.fault = fault,
                   !.value = req.value, !.body = req.body]

\* a handler that passes any value on
AnyValue(value) == TRUE

\* req.Value != -1 && req.Value != 1 is refused
ValueAllowed(value) == ~(value # -1 /\ value # 1)

\* the slug parameter, the body, the viewer id and its rate limit (whose answer
\* is an input here), the value, and findDecisionBySlug
HandleDecisionVoteWith(t, inputs) ==
    /\ VoteFrame
    /\ tx[t].pc = "idle"
    /\ \A u \in ToggleIDs : u < t => tx[u].pc # "idle"
    /\ \E req \in inputs, allowed \in BOOLEAN, ok \in BOOLEAN :
         LET slug == normalizeSlugParam(req.slug)
             decoded == decodeJSON(req.body, maxVoteBodyBytes, voteRequest)
             found == findDecisionBySlug(slug.value)
         IN tx' = [tx EXCEPT ![t] =
                     IF ~slug.ok THEN VoteAnswer(req, StatusBadRequest, "slug is invalid", FALSE)
                     ELSE IF ~decoded.ok THEN VoteAnswer(req, StatusBadRequest, decoded.err, FALSE)
                     ELSE IF ~IsUUID(req.viewer_id)
                          THEN VoteAnswer(req, StatusBadRequest, "viewer_id must be a valid UUID", FALSE)
                     ELSE IF ~allowed
                          THEN VoteAnswer(req, StatusTooManyRequests, "rate limit exceeded", FALSE)
                     ELSE IF ~ValueAllowed(req.value)
                          THEN VoteAnswer(req, StatusBadRequest, "value must be -1 or 1", FALSE)
                     ELSE IF ~ok
                          THEN VoteAnswer(req, StatusInternalServerError, "failed to load decision", TRUE)
                     ELSE IF found = {}
                          THEN VoteAnswer(req, StatusNotFound, "decision not found", FALSE)
                     ELSE [IdleTx EXCEPT !.pc = "begin", !.decisionID = Deref(found).id,
                                         !.viewerID = req.viewer_id, !.value = req.value,
                                         !.body = req.body]]
    /\ decision_votes' = decision_votes

\* the handler over the requests of the vote endpoint's clients
HandleDecisionVote(t) == HandleDecisionVoteWith(t, VoteInputs)

\* votes on the decision that closes: va has a vote stored, vb has none
ClosedVoteInputs ==
    {VoteRequest(SlugClosing, SmallBody(voteRequest), "va", 1),
     VoteRequest(SlugClosing, SmallBody(voteRequest), "vb", -1)}

\* summary, status, err := s.toggleDecisionVote(ctx, decision.ID, viewerID, req.Value)
CallToggle(t) ==
    /\ VoteFrame
    /\ tx[t].pc = "begin"
    /\ StartTx(t, tx[t].decisionID, tx[t].viewerID, tx[t].value)

NextVoteHandler ==
    \E t \in 1..MaxVoteRequests :
        \/ HandleDecisionVote(t)
        \/ CallToggle(t)
        \/ SelectForUpdate(t)
        \/ ExecWrite(t)
        \/ QuerySummary(t)
        \/ Commit(t)

\* a response of va to the decision that closes
ClosedResponseInputs ==
    LET good == CHOOSE p \in GoodPayloads : p.comment = Nil
    IN {ResponseRequest(SlugClosing, SmallBody(decisionResponsePayload), "va", good)}

\* the vote endpoint and the response endpoint serving the same decisions
NextClosed ==
    \/ \E t \in 1..MaxVoteRequests :
          \/ HandleDecisionVoteWith(t, ClosedVoteInputs)
          \/ CallToggle(t)
          \/ SelectForUpdate(t)
          \/ ExecWrite(t)
          \/ QuerySummary(t)
          \/ Commit(t)
    \/ StartResponseWith(1, ClosedResponseInputs)
    \/ FindDecision(1)
    \/ InsertResponse(1)

(***************************************************************************)
(* handleGetDecision: the vote summary of the envelope                     *)
(***************************************************************************)
\* requests: the slug and the viewer_id query parameter, which may be absent
GetInputs ==
    {[slug |-> SlugOpen, viewer_id |-> v] : v \in ViewerIDs \cup {NoViewer, "not-a-uuid"}}
    \cup {[slug |-> SlugUnknown, viewer_id |-> NoViewer]}

GetAnswer(status, err, fault) ==
    [IdleTx EXCEPT !.pc = "done", !.op = "get", !.status = status, !.err = err,
                   !.fault = fault]

\* the request from its parameters to postVote, read from the committed rows
\* by its own statement; the other statements of the handler only read, and
\* a failure of any of them ends the request with 500
GetPostVote(t) ==
    /\ VoteFrame
    /\ tx[t].pc = "idle"
    /\ \A u \in ToggleIDs : u < t => tx[u].pc # "idle"
    /\ \E req \in GetInputs, allowed \in BOOLEAN, ok \in BOOLEAN :
         LET slug == normalizeSlugParam(req.slug)
             found == findDecisionBySlug(slug.value)
         IN tx' = [tx EXCEPT ![t] =
                     IF ~slug.ok THEN GetAnswer(StatusBadRequest, "slug is invalid", FALSE)
                     ELSE IF req.viewer_id # NoViewer /\ ~IsUUID(req.viewer_id)
                          THEN GetAnswer(StatusBadRequest,
                                         "viewer_id query param must be a valid UUID", FALSE)
                     ELSE IF req.viewer_id # NoViewer /\ ~allowed
                          THEN GetAnswer(StatusTooManyRequests, "rate limit exceeded", FALSE)
                     ELSE IF found = {}
                          THEN GetAnswer(StatusNotFound, "decision not found", FALSE)
                     ELSE IF ~ok
                          THEN GetAnswer(StatusInternalServerError, "failed to load post votes", TRUE)
                     ELSE [GetAnswer(StatusOK, "", FALSE)
                             EXCEPT !.decisionID = Deref(found).id, !.viewerID = req.viewer_id,
                                    !.summary = queryDecisionVoteSummary(
                                        decision_votes, Deref(found).id, req.viewer_id)]]
    /\ decision_votes' = decision_votes

\* toggles and reads of the summary, side by side
NextSummary ==
    \E t \in 1..MaxVoteRequests :
        \/ BeginTx(t)
        \/ GetPostVote(t)
        \/ SelectForUpdate(t)
        \/ ExecWrite(t)
        \/ QuerySummary(t)
        \/ Commit(t)

(***************************************************************************)
(* The three writing handlers side by side, one request each, on tables    *)
(* that hold rows of earlier requests                                      *)
(***************************************************************************)
\* the vote of va on the open decision, next to the vote stored earlier
StoredVotes ==
    StoredEarlier \cup
      {[id |-> MaxToggles + 1, decision_id |-> "d1", voter_viewer_id |-> "va", value |-> 1]}

\* the response of va to the open decision
StoredResponses ==
    {[id |-> 0, decision_id |-> "d1", viewer_id |-> "va", rating |-> 5, suggestion |-> 3,
      emoji |-> <<"U+1FAE1">>, comment |-> Nil, created_at |-> 0]}

NextAPI ==
    \/ StartCreateDecision(1)
    \/ InsertDecision(1)
    \/ StartResponse(1)
    \/ FindDecision(1)
    \/ InsertResponse(1)
    \/ HandleDecisionVote(1)
    \/ CallToggle(1)
    \/ SelectForUpdate(1)
    \/ ExecWrite(1)
    \/ QuerySummary(1)
    \/ Commit(1)

(***************************************************************************)
(* handleCreateVote: votes on a response, the earlier generation           *)
(***************************************************************************)
\* the responses of table responses, by id
LegacyResponses == {"r1", "r2"}

legacyVoteRequest == {"voter_viewer_id", "value"}

\* the path parameters that parse as a UUID: r9 is the id of no response
LegacyResponseUUIDs == LegacyResponses \cup {"r9"}

LegacyVoteRequest(responseID, body, voter_viewer_id, value) ==
    [responseID |-> responseID, body |-> body, voter_viewer_id |-> voter_viewer_id,
     value |-> value]

\* requests: every response, voter and value, one per refusal of the handler
\* and two bodies that do not decode
LegacyVoteInputs ==
    LET ok == SmallBody(legacyVoteRequest)
    IN {LegacyVoteRequest(r, ok, v, val) :
           r \in LegacyResponseUUIDs, v \in ViewerIDs, val \in VoteValues}
       \cup {LegacyVoteRequest("not-a-uuid", ok, "va", 1),
             LegacyVoteRequest("r1", ok, "not-a-uuid", 1),
             LegacyVoteRequest("r1", ok, "va", 0),
             LegacyVoteRequest("r1", Body(64, 64, legacyVoteRequest \cup {"viewer_id"}, 1, TRUE),
                               "va", 1),
             LegacyVoteRequest("r1", Body(128, 64, legacyVoteRequest, 2, TRUE), "va", 1)}

\* decodeJSON of the earlier generation: no ceiling on the body
decodeJSONUnbounded(body, known) ==
    IF ~body.wellFormed \/ ~(body.fields \subseteq known) THEN [ok |-> FALSE, err |-> "invalid JSON"]
    ELSE IF body.values > 1
    THEN [ok |-> FALSE,
          err |-> "invalid JSON: request body must contain a single JSON object"]
    ELSE [ok |-> TRUE, err |-> ""]

\* a statement that overwrites the vote of the viewer on the response
UpsertIntoVotes(rows, row) ==
    IF row.response_id \notin LegacyResponses THEN [rows |-> rows, code |-> "23503"]
    ELSE [rows |-> {r \in rows : ~(r.response_id = row.response_id
                                     /\ r.voter_viewer_id = row.voter_viewer_id)}
                     \cup {row},
          code |-> ""]

\* INSERT INTO votes (id, response_id, voter_viewer_id, value) on a table with
\* UNIQUE (response_id, voter_viewer_id) and response_id REFERENCES responses(id):
\* the rows after the statement and the SQLSTATE of its error
InsertIntoVotes(rows, row) ==
    IF \E r \in rows : r.response_id = row.response_id
                        /\ r.voter_viewer_id = row.voter_viewer_id
    THEN [rows |-> rows, code |-> "23505"]
    ELSE IF row.response_id \notin LegacyResponses THEN [rows |-> rows, code |-> "23503"]
    ELSE [rows |-> rows \cup {row}, code |-> ""]

NoLegacyRequest ==
    [responseID |-> "", body |-> SmallBody(legacyVoteRequest), voter_viewer_id |-> "",
     value |-> 0, status |-> 0, err |-> "", fault |-> FALSE]

\* one request, from the path parameter to the answer
HandleCreateVote ==
    /\ LegacyFrame
    /\ \E req \in LegacyVoteInputs, ok \in BOOLEAN :
         LET decoded == decodeJSONUnbounded(req.body, legacyVoteRequest)
             row == [id |-> Cardinality(legacy.votes) + 1, response_id |-> req.responseID,
                     voter_viewer_id |-> req.voter_viewer_id, value |-> req.value]
             stored == InsertIntoVotes(legacy.votes, row)
             answer(status, err, fault) ==
                 [responseID |-> req.responseID, body |-> req.body,
                  voter_viewer_id |-> req.voter_viewer_id, value |-> req.value,
                  status |-> status, err |-> err, fault |-> fault]
             refused(status, err) == [votes |-> legacy.votes, last |-> answer(status, err, FALSE)]
         IN legacy' =
              IF req.responseID \notin LegacyResponseUUIDs
              THEN refused(StatusBadRequest, "responseID must be a valid UUID")
              ELSE IF ~decoded.ok THEN refused(StatusBadRequest, decoded.err)
              ELSE IF ~IsUUID(req.voter_viewer_id)
              THEN refused(StatusBadRequest, "voter_viewer_id must be a valid UUID")
              ELSE IF ~ValueAllowed(req.value)
              THEN refused(StatusBadRequest, "value must be -1 or 1")
              ELSE IF ~ok
              THEN [votes |-> legacy.votes,
                    last |-> answer(StatusInternalServerError, "failed to create vote", TRUE)]
              ELSE IF stored.code = "23503" THEN refused(StatusNotFound, "response not found")
              ELSE IF stored.code = "23505"
              THEN refused(StatusConflict, "viewer already voted on this response")
              ELSE [votes |-> stored.rows, last |-> answer(StatusCreated, "", FALSE)]

NextLegacy == HandleCreateVote

(***************************************************************************)
(* The slug generator run on every title up to MaxTitleLen                 *)
(***************************************************************************)
TitleAlphabet == {"a", "A", "7", " ", "-", "_", "!", "U+00E9", "LF", "CR"}

TitleInputs == UNION {[1..n -> TitleAlphabet] : n \in 0..MaxTitleLen}

IdleSlug == [pc |-> "idle", title |-> << >>, status |-> 0, slug |-> << >>]

\* title validation, slugify, the fallback base and the suffix, as
\* handleCreateDecision runs them when the first INSERT succeeds
GenerateSlug ==
    /\ SlugFrame
    /\ sl.pc = "idle"
    /\ \E draws \in RandomDraws :
         LET title == normalizeRequiredText(sl.title, titleMinLength, titleMaxLength, FALSE)
         IN IF ~title.ok
            THEN sl' = [sl EXCEPT !.pc = "done", !.status = StatusBadRequest]
            ELSE sl' = [sl EXCEPT !.pc = "done", !.status = StatusCreated,
                                  !.slug = slugWithSuffix(baseSlugOf(title.value), draws)]

NextSlug == GenerateSlug

(***************************************************************************)
(* float64 arithmetic.  A finite float64 is a sign, a mantissa of 53 bits  *)
(* and an exponent: its value is man * 2^exp, negated when neg.  Every     *)
(* operation computes the exact result and rounds it to the nearest        *)
(* float64, ties to even.  Mantissas and exact results are natural numbers *)
(* written in base 2^15, lowest digit first, without leading zeros.  The   *)
(* values of this program stay far from overflow and from the subnormal    *)
(* range, and no operation of it yields a negative zero.                   *)
(***************************************************************************)
LimbBits == 15
LimbBase == 2^LimbBits
MantissaBits == 53

RECURSIVE BigNorm(_)
BigNorm(a) ==
    IF a = << >> THEN a
    ELSE IF a[Len(a)] = 0 THEN BigNorm(SubSeq(a, 1, Len(a) - 1)) ELSE a

RECURSIVE BigFromNat(_)
BigFromNat(n) == IF n = 0 THEN << >> ELSE <<n % LimbBase>> \o BigFromNat(n \div LimbBase)

BigLow(a) == IF a = << >> THEN 0 ELSE a[1]
BigRest(a) == IF a = << >> THEN << >> ELSE Tail(a)

\* a + b + carry
RECURSIVE BigAddCarry(_, _, _)
BigAddCarry(a, b, carry) ==
    IF a = << >> /\ b = << >> THEN (IF carry = 0 THEN << >> ELSE <<carry>>)
    ELSE LET sum == BigLow(a) + BigLow(b) + carry
         IN <<sum % LimbBase>> \o BigAddCarry(BigRest(a), BigRest(b), sum \div LimbBase)

BigAdd(a, b) == BigAddCarry(a, b, 0)

\* a - b - borrow, for a >= b + borrow
RECURSIVE BigSubBorrow(_, _, _)
BigSubBorrow(a, b, borrow) ==
    IF a = << >> THEN << >>
    ELSE LET diff == a[1] - BigLow(b) - borrow
         IN <<IF diff < 0 THEN diff + LimbBase ELSE diff>>
            \o BigSubBorrow(Tail(a), BigRest(b), IF diff < 0 THEN 1 ELSE 0)

BigSub(a, b) == BigNorm(BigSubBorrow(a, b, 0))

\* -1, 0 or 1 as a is less than, equal to or greater than b
RECURSIVE BigCmpFrom(_, _, _)
BigCmpFrom(a, b, i) ==
    IF i = 0 THEN 0
    ELSE IF a[i] < b[i] THEN -1
    ELSE IF a[i] > b[i] THEN 1
    ELSE BigCmpFrom(a, b, i - 1)

BigCmp(a, b) ==
    IF Len(a) < Len(b) THEN -1
    ELSE IF Len(a) > Len(b) THEN 1
    ELSE BigCmpFrom(a, b, Len(a))

\* a * k + carry, for a digit k
RECURSIVE BigMulDigitCarry(_, _, _)
BigMulDigitCarry(a, k, carry) ==
    IF a = << >> THEN (IF carry = 0 THEN << >> ELSE <<carry>>)
    ELSE LET prod == a[1] * k + carry
         IN <<prod % LimbBase>> \o BigMulDigitCarry(Tail(a), k, prod \div LimbBase)

BigMulDigit(a, k) == BigNorm(BigMulDigitCarry(a, k, 0))

RECURSIVE BigMul(_, _)
BigMul(a, b) ==
    IF a = << >> \/ b = << >> THEN << >>
    ELSE BigNorm(BigAdd(BigMulDigit(a, b[1]), <<0>> \o BigMul(a, Tail(b))))

\* quotient and remainder of a by k, for 0 < k < LimbBase
RECURSIVE BigDivDigit(_, _)
BigDivDigit(a, k) ==
    IF a = << >> THEN [q |-> << >>, r |-> 0]
    ELSE LET high == BigDivDigit(Tail(a), k)
             cur == high.r * LimbBase + a[1]
         IN [q |-> BigNorm(<<cur \div k>> \o high.q), r |-> cur % k]

\* the number of bits of a
DigitBitLen(x) == CHOOSE n \in 1..LimbBits : 2^(n - 1) <= x /\ x < 2^n
BigBitLen(a) == IF a = << >> THEN 0 ELSE LimbBits * (Len(a) - 1) + DigitBitLen(a[Len(a)])

\* a * 2^n
BigShl(a, n) ==
    IF a = << >> THEN a
    ELSE [i \in 1..(n \div LimbBits) |-> 0] \o BigMulDigit(a, 2^(n % LimbBits))

\* a \div 2^n, and whether a bit was lost
BigShr(a, n) ==
    LET digits == n \div LimbBits
        dropped == SubSeq(a, 1, digits)
        kept == SubSeq(a, digits + 1, Len(a))
        low == BigDivDigit(kept, 2^(n % LimbBits))
    IN [q |-> low.q, sticky |-> low.r # 0 \/ \E i \in 1..Len(dropped) : dropped[i] # 0]

F64Zero == [neg |-> FALSE, man |-> << >>, exp |-> 0]

\* the float64 nearest to m * 2^e (a bit more when sticky), ties to even: m is
\* brought to 55 bits, the last two of which and sticky decide the rounding
F64Round(neg, m, e, sticky) ==
    IF m = << >> THEN F64Zero
    ELSE LET len == BigBitLen(m)
             shift == len - (MantissaBits + 2)
             cut == IF shift > 0 THEN BigShr(m, shift)
                    ELSE [q |-> BigShl(m, -shift), sticky |-> FALSE]
             rest == cut.q[1] % 4
             odd == (cut.q[1] \div 4) % 2 = 1
             lost == sticky \/ cut.sticky
             up == rest = 3 \/ (rest = 2 /\ (lost \/ odd))
             down == BigDivDigit(cut.q, 4).q
             man == IF up THEN BigAdd(down, <<1>>) ELSE down
         IN IF BigBitLen(man) > MantissaBits
            THEN [neg |-> neg, man |-> BigDivDigit(man, 2).q, exp |-> e + shift + 3]
            ELSE [neg |-> neg, man |-> man, exp |-> e + shift + 2]

\* float64(n)
F64FromInt(n) == F64Round(n < 0, BigFromNat(IF n < 0 THEN -n ELSE n), 0, FALSE)

F64Neg(x) == IF x.man = << >> THEN x ELSE [x EXCEPT !.neg = ~@]

\* x + y
F64Add(x, y) ==
    IF x.man = << >> THEN y
    ELSE IF y.man = << >> THEN x
    ELSE LET e == IF x.exp < y.exp THEN x.exp ELSE y.exp
             mx == BigShl(x.man, x.exp - e)
             my == BigShl(y.man, y.exp - e)
             cmp == BigCmp(mx, my)
         IN IF x.neg = y.neg THEN F64Round(x.neg, BigAdd(mx, my), e, FALSE)
            ELSE IF cmp = 0 THEN F64Zero
            ELSE IF cmp > 0 THEN F64Round(x.neg, BigSub(mx, my), e, FALSE)
            ELSE F64Round(y.neg, BigSub(my, mx), e, FALSE)

\* x - y
F64Sub(x, y) == F64Add(x, F64Neg(y))

\* x * y
F64Mul(x, y) ==
    IF x.man = << >> \/ y.man = << >> THEN F64Zero
    ELSE F64Round(x.neg # y.neg, BigMul(x.man, y.man), x.exp + y.exp, FALSE)

\* x * y + z rounded once, as a build that fuses the two operations computes it
F64FusedMulAdd(x, y, z) ==
    IF x.man = << >> \/ y.man = << >> THEN z
    ELSE IF z.man = << >> THEN F64Mul(x, y)
    ELSE LET neg == x.neg # y.neg
             prod == BigMul(x.man, y.man)
             pe == x.exp + y.exp
             e == IF pe < z.exp THEN pe ELSE z.exp
             mp == BigShl(prod, pe - e)
             mz == BigShl(z.man, z.exp - e)
             cmp == BigCmp(mp, mz)
         IN IF neg = z.neg THEN F64Round(neg, BigAdd(mp, mz), e, FALSE)
            ELSE IF cmp = 0 THEN F64Zero
            ELSE IF cmp > 0 THEN F64Round(neg, BigSub(mp, mz), e, FALSE)
            ELSE F64Round(z.neg, BigSub(mz, mp), e, FALSE)

\* x / float64(n), for an integer 0 < n < LimbBase
F64DivInt(x, n) ==
    IF x.man = << >> THEN F64Zero
    ELSE LET quot == BigDivDigit(BigShl(x.man, 2 * LimbBits), n)
         IN F64Round(x.neg, quot.q, x.exp - 2 * LimbBits, quot.r # 0)

\* the float64 of the decimal constant num / 10^k given as num / den
F64Const(num, den) ==
    LET quot == BigDivDigit(BigShl(BigFromNat(num), 5 * LimbBits), den)
    IN F64Round(FALSE, quot.q, -5 * LimbBits, quot.r # 0)

\* |x| < |y|, for x and y other than 0: mantissas have MantissaBits bits
F64MagLess(x, y) == x.exp < y.exp \/ (x.exp = y.exp /\ BigCmp(x.man, y.man) < 0)

\* x < y
F64Less(x, y) ==
    IF x.man = << >> THEN y.man # << >> /\ ~y.neg
    ELSE IF y.man = << >> THEN x.neg
    ELSE IF x.neg # y.neg THEN x.neg
    ELSE IF x.neg THEN F64MagLess(y, x)
    ELSE F64MagLess(x, y)

F64LessEq(x, y) == ~F64Less(y, x)

(***************************************************************************)
(* analyzeCommentSentiment, loadDecisionStats and loadRecommendation       *)
(***************************************************************************)
positiveSentimentWords ==
    {<<"a", "m", "a", "z", "i", "n", "g">>, <<"b", "e", "t", "t", "e", "r">>,
     <<"b", "e", "n", "e", "f", "i", "t">>, <<"b", "e", "s", "t">>,
     <<"e", "x", "c", "e", "l", "l", "e", "n", "t">>, <<"g", "o", "o", "d">>,
     <<"g", "r", "e", "a", "t">>, <<"g", "r", "o", "w", "t", "h">>,
     <<"h", "a", "p", "p", "y">>, <<"l", "o", "v", "e">>,
     <<"o", "p", "p", "o", "r", "t", "u", "n", "i", "t", "y">>,
     <<"p", "o", "s", "i", "t", "i", "v", "e">>, <<"s", "a", "f", "e">>,
     <<"s", "m", "a", "r", "t">>, <<"s", "t", "r", "o", "n", "g">>,
     <<"s", "u", "p", "p", "o", "r", "t">>, <<"u", "p", "s", "i", "d", "e">>,
     <<"w", "o", "r", "t", "h">>, <<"y", "e", "s">>, <<"w", "i", "n">>}

negativeSentimentWords ==
    {<<"b", "a", "d">>, <<"c", "o", "n", "c", "e", "r", "n">>,
     <<"c", "o", "s", "t", "l", "y">>, <<"d", "i", "f", "f", "i", "c", "u", "l", "t">>,
     <<"d", "o", "w", "n", "s", "i", "d", "e">>,
     <<"e", "x", "p", "e", "n", "s", "i", "v", "e">>, <<"h", "a", "r", "d">>,
     <<"h", "a", "t", "e">>, <<"l", "o", "s", "s">>,
     <<"n", "e", "g", "a", "t", "i", "v", "e">>, <<"n", "o">>,
     <<"p", "r", "o", "b", "l", "e", "m">>, <<"r", "i", "s", "k">>,
     <<"r", "i", "s", "k", "y">>, <<"s", "t", "r", "e", "s", "s">>,
     <<"u", "n", "s", "a", "f", "e">>, <<"w", "o", "r", "s", "e">>,
     <<"w", "o", "r", "s", "t">>}

\* U+00BD, one half, is a number and no digit
OtherNumbers == {"U+00BD"}
\* unicode.IsNumber
IsNumber(r) == IsDigit(r) \/ r \in OtherNumbers

\* the runes strings.FieldsFunc does not split at
IsWordRune(r) == IsLetter(r) \/ IsNumber(r) \/ r = "'"

\* strings.FieldsFunc: the maximal runs of word runes; cur is the run at hand
RECURSIVE FieldsFunc(_, _)
FieldsFunc(s, cur) ==
    IF s = << >> THEN (IF cur = << >> THEN << >> ELSE <<cur>>)
    ELSE IF IsWordRune(Head(s)) THEN FieldsFunc(Tail(s), Append(cur, Head(s)))
    ELSE (IF cur = << >> THEN << >> ELSE <<cur>>) \o FieldsFunc(Tail(s), << >>)

\* the word as it is
KeepApostrophes(word) == word

\* strings.ReplaceAll(word, "'", "")
StripApostrophes(word) == SelectSeq(word, LAMBDA r : r # "'")

\* the words of a comment as they are looked up in the lexicons
SentimentWords(comment) ==
    LET words == FieldsFunc(ToLower(comment), << >>)
    IN [i \in 1..Len(words) |-> StripApostrophes(words[i])]

CountIn(words, lexicon) == Cardinality({i \in 1..Len(words) : words[i] \in lexicon})

\* clamp
clamp(value, minValue, maxValue) ==
    IF F64Less(value, minValue) THEN minValue
    ELSE IF F64Less(maxValue, value) THEN maxValue
    ELSE value

\* 1.0 and -1.0
F64One == [neg |-> FALSE, man |-> BigShl(<<1>>, MantissaBits - 1), exp |-> 1 - MantissaBits]
F64MinusOne == [F64One EXCEPT !.neg = TRUE]

analyzeCommentSentiment(comment) ==
    LET words == SentimentWords(comment)
        positiveCount == CountIn(words, positiveSentimentWords)
        negativeCount == CountIn(words, negativeSentimentWords)
        totalHits == positiveCount + negativeCount
    IN IF Len(words) = 0 THEN F64Zero
       ELSE IF totalHits = 0 THEN F64Zero
       ELSE clamp(F64DivInt(F64FromInt(positiveCount - negativeCount), totalHits),
                  F64MinusOne, F64One)

RECURSIVE SumRating(_)
SumRating(rows) ==
    IF rows = {} THEN 0
    ELSE LET r == CHOOSE x \in rows : TRUE
         IN r.rating + SumRating(rows \ {r})

\* total += x for every x of a list, from 0.0
RECURSIVE F64Sum(_)
F64Sum(xs) ==
    IF xs = << >> THEN F64Zero
    ELSE F64Add(F64Sum(SubSeq(xs, 1, Len(xs) - 1)), xs[Len(xs)])

\* COALESCE(AVG(rating), 0)::float8: the average of the store is exact to 16
\* decimal places, which for these few rows is the float64 nearest to the
\* quotient
AvgRating(rows) ==
    IF rows = {} THEN F64Zero
    ELSE F64DivInt(F64FromInt(SumRating(rows)), Cardinality(rows))

\* (x - 3.0) / 2.0 as it is
RatingToScoreUnclamped(x) == F64DivInt(F64Sub(x, F64FromInt(3)), 2)

\* clamp((x - 3.0) / 2.0, -1.0, 1.0)
RatingToScore(x) ==
    clamp(F64DivInt(F64Sub(x, F64FromInt(3)), 2), F64MinusOne, F64One)

\* a query whose r5 has the filter of r4
loadDecisionStatsFilterSlip(rows, decisionID) ==
    LET mine == {r \in rows : r.decision_id = decisionID}
        avgRating == AvgRating(mine)
    IN [response_count |-> Cardinality(mine),
        rating_counts |-> [k \in 1..5 |->
                             Cardinality({r \in mine : r.rating = (IF k = 5 THEN 4 ELSE k)})],
        avg_rating |-> avgRating,
        net_sentiment |-> RatingToScore(avgRating),
        categories |-> [do_it |-> Cardinality({r \in mine : r.suggestion = 3}),
                        dont_do_it |-> Cardinality({r \in mine : r.suggestion = 1}),
                        mixed |-> Cardinality({r \in mine : r.suggestion = 2})]]

\* loadDecisionStats, but for the emoji counts
loadDecisionStats(rows, decisionID) ==
    LET mine == {r \in rows : r.decision_id = decisionID}
        avgRating == AvgRating(mine)
    IN [response_count |-> Cardinality(mine),
        rating_counts |-> [k \in 1..5 |-> Cardinality({r \in mine : r.rating = k})],
        avg_rating |-> avgRating,
        net_sentiment |-> RatingToScore(avgRating),
        categories |-> [do_it |-> Cardinality({r \in mine : r.suggestion = 3}),
                        dont_do_it |-> Cardinality({r \in mine : r.suggestion = 1}),
                        mixed |-> Cardinality({r \in mine : r.suggestion = 2})]]

\* topEmoji of loadDecisionStats: "" when the query of the emoji counts
\* returns no row, else the emoji of its first row, one of those with the
\* highest count; among these the collation of the column decides
TopEmojis(rows, decisionID) ==
    LET mine == {r \in rows : r.decision_id = decisionID}
        count(e) == Cardinality({r \in mine : r.emoji = e})
    IN IF mine = {} THEN {<< >>}
       ELSE {r.emoji : r \in {x \in mine : \A y \in mine : count(y.emoji) <= count(x.emoji)}}

suggestionToScore(suggestion) ==
    CASE suggestion = 1 -> F64MinusOne
      [] suggestion = 2 -> F64Zero
      [] suggestion = 3 -> F64One
      [] OTHER -> F64Zero

suggestionWeight == F64Const(35, 100)
ratingWeight == F64Const(30, 100)
commentSentimentWeight == F64Const(20, 100)
postVoteWeight == F64Const(15, 100)
recommendationYesThreshold == F64Zero

\* the ways a build computes a*b + c*d + e*f + g*h: every operation rounded
\* on its own, or the additions fused with one of their products, which the
\* language allows and the compiler does where the processor has the
\* instruction
Builds == {"separate", "fused left", "fused right"}

\* the sum of the first k terms w * x, added from the left
RECURSIVE WeightedFold(_, _, _)
WeightedFold(build, terms, k) ==
    IF k = 1 THEN F64Mul(terms[1].w, terms[1].x)
    ELSE IF build = "separate"
    THEN F64Add(WeightedFold(build, terms, k - 1), F64Mul(terms[k].w, terms[k].x))
    ELSE IF k = 2 /\ build = "fused left"
    THEN F64FusedMulAdd(terms[1].w, terms[1].x, F64Mul(terms[2].w, terms[2].x))
    ELSE F64FusedMulAdd(terms[k].w, terms[k].x, WeightedFold(build, terms, k - 1))

\* a weighted sum that spreads the weight of the signals that are 0 over the
\* others
RenormalizedSum(build, terms) ==
    LET present == {k \in 1..Len(terms) : terms[k].x.man # << >>}
        sum == WeightedFold(build, terms, Len(terms))
    IN IF present = {} THEN sum
       ELSE F64DivInt(F64Mul(sum, F64FromInt(Len(terms))), Cardinality(present))

WeightedSum(build, terms) == WeightedFold(build, terms, Len(terms))

\* score >= recommendationYesThreshold
AtLeast(score, threshold) == F64LessEq(threshold, score)

\* the four signals of loadRecommendation: voteRows are the rows of
\* decision_votes and scanned the rows of responses of the decision, in the
\* order the store returns them
recommendationSignals(voteRows, scanned) ==
    LET voteSum == SumValue(voteRows)
        voteCount == Cardinality(voteRows)
        responseCount == Len(scanned)
        commented == SelectSeq(scanned, LAMBDA r : r.comment # Nil)
        commentCount == Len(commented)
        suggestionScoreTotal ==
            F64Sum([i \in 1..responseCount |-> suggestionToScore(scanned[i].suggestion)])
        ratingScoreTotal ==
            F64Sum([i \in 1..responseCount |-> RatingToScore(F64FromInt(scanned[i].rating))])
        commentSentimentTotal ==
            F64Sum([i \in 1..commentCount |-> analyzeCommentSentiment(Deref(commented[i].comment))])
    IN [suggestion_score |-> IF responseCount > 0
                             THEN F64DivInt(suggestionScoreTotal, responseCount) ELSE F64Zero,
        rating_score |-> IF responseCount > 0
                         THEN F64DivInt(ratingScoreTotal, responseCount) ELSE F64Zero,
        comment_sentiment |-> IF commentCount > 0
                              THEN F64DivInt(commentSentimentTotal, commentCount) ELSE F64Zero,
        post_vote_score |-> IF voteCount > 0
                            THEN clamp(F64DivInt(F64FromInt(voteSum), voteCount),
                                       F64MinusOne, F64One)
                            ELSE F64Zero]

\* the score and the decision of loadRecommendation, from its signals
recommendationView(signals, build) ==
    LET terms == <<[w |-> suggestionWeight, x |-> signals.suggestion_score],
                   [w |-> ratingWeight, x |-> signals.rating_score],
                   [w |-> commentSentimentWeight, x |-> signals.comment_sentiment],
                   [w |-> postVoteWeight, x |-> signals.post_vote_score]>>
        score == clamp(WeightedSum(build, terms), F64MinusOne, F64One)
    IN [decision |-> IF AtLeast(score, recommendationYesThreshold) THEN "yes" ELSE "no",
        score |-> score, suggestion_score |-> signals.suggestion_score,
        rating_score |-> signals.rating_score,
        comment_sentiment |-> signals.comment_sentiment,
        post_vote_score |-> signals.post_vote_score]

loadRecommendation(voteRows, scanned, build) ==
    recommendationView(recommendationSignals(voteRows, scanned), build)

\* the rows of responses of decision d1 the scores are computed on: for each
\* of three viewers none or one of these, its rating that of its emoji
ViewerNames == <<"va", "vb", "vc">>
ScoreViewers == {ViewerNames[i] : i \in 1..MaxRespondents}
\* the id of the row of a viewer
RowID(v) == CHOOSE i \in 1..Len(ViewerNames) : ViewerNames[i] = v

CommentGreat == <<"g", "r", "e", "a", "t">>
CommentRisky == <<"T", "o", "o", " ", "r", "i", "s", "k", "y", "!">>
CommentMixed == <<"g", "o", "o", "d", ",", " ", "s", "a", "f", "e", ";", " ", "b", "a", "d">>

ScoreKinds ==
    <<[suggestion |-> 3, emoji |-> <<"U+1FAE1">>, comment |-> Some(CommentGreat)],
      [suggestion |-> 1, emoji |-> <<"U+1FAE0">>, comment |-> Some(CommentRisky)],
      [suggestion |-> 3, emoji |-> <<"U+1FAE1">>, comment |-> Nil],
      [suggestion |-> 3, emoji |-> <<"U+1FAE0">>, comment |-> Some(CommentRisky)],
      [suggestion |-> 2, emoji |-> <<"U+1F62C">>, comment |-> Some(CommentMixed)]>>

ScoreRow(v, kind) ==
    [id |-> RowID(v), decision_id |-> "d1", viewer_id |-> v, rating |-> emojiRatings[kind.emoji[1]],
     suggestion |-> kind.suggestion, emoji |-> kind.emoji, comment |-> kind.comment]

ScoreTables ==
    {{ScoreRow(v, ScoreKinds[f[v]]) : v \in {w \in ScoreViewers : f[w] # 0}} :
        f \in [ScoreViewers -> 0..Len(ScoreKinds)]}

\* the rows of decision_votes: for each of two viewers no vote, -1 or 1 on
\* decision d1, and the vote on another decision stored earlier
VoteTables ==
    {StoredEarlier \cup
       {[id |-> RowID(v), decision_id |-> "d1", voter_viewer_id |-> v, value |-> f[v]] :
           v \in {w \in ViewerIDs : f[w] # 0}} :
        f \in [ViewerIDs -> {-1, 0, 1}]}

IdleStats == [pc |-> "idle"]
IdleRecommendation == [pc |-> "idle"]

\* handleGetDecision for decision d1, first step: loadDecisionStats
LoadDecisionStats ==
    /\ ScoreFrame
    /\ stats.pc = "idle"
    /\ \E top \in TopEmojis(responses, "d1") :
         stats' = [pc |-> "done", result |-> loadDecisionStats(responses, "d1"),
                   top_emoji |-> top]
    /\ UNCHANGED <<decision_votes, responses, rec, cm, legacy, al, viewerLimiter, vg>>

\* handleGetDecision, second step: loadRecommendation; the store returns the
\* rows of responses in an order of its choice
LoadRecommendation ==
    /\ ScoreFrame
    /\ stats.pc = "done"
    /\ rec.pc = "idle"
    /\ \E scanned \in Perms({r \in responses : r.decision_id = "d1"}) :
         LET signals ==
                 recommendationSignals({r \in decision_votes : r.decision_id = "d1"}, scanned)
         IN \E build \in Builds :
              rec' = [pc |-> "done", scanned |-> scanned, build |-> build,
                      result |-> recommendationView(signals, build)]
    /\ UNCHANGED <<decision_votes, responses, stats, cm>>

NextScore == LoadDecisionStats \/ LoadRecommendation

\* the comments analyzeCommentSentiment is called on: the two examples of
\* its documentation, the comments of the responses above, and every sequence
\* of at most MaxCommentPieces of the pieces
ExampleAmazing ==
    <<"a", "m", "a", "z", "i", "n", "g", " ", "a", "n", "d", " ", "s", "a", "f", "e">>
ExampleOpportunity ==
    <<"T", "h", "i", "s", " ", "i", "s", " ", "a", " ", "g", "r", "e", "a", "t", " ",
      "o", "p", "p", "o", "r", "t", "u", "n", "i", "t", "y", ",", " ", "n", "o", " ",
      "r", "i", "s", "k">>

CommentPieces ==
    {<<"s", "a", "f", "e">>, <<"N", "O">>, <<"r", "i", "s", "k">>,
     <<"a", "n", "d">>, <<" ">>, <<"'">>, <<"U+00BD">>}

RECURSIVE CommentsOf(_)
CommentsOf(n) ==
    IF n = 0 THEN {<< >>}
    ELSE LET shorter == CommentsOf(n - 1)
         IN shorter \cup {c \o piece : c \in shorter, piece \in CommentPieces}

CommentInputs ==
    CommentsOf(MaxCommentPieces)
        \cup {ExampleAmazing, ExampleOpportunity, CommentGreat, CommentRisky, CommentMixed}

IdleComment == [pc |-> "idle"]

\* analyzeCommentSentiment
AnalyzeComment ==
    /\ ScoreFrame
    /\ cm.pc = "idle"
    /\ \E comment \in CommentInputs :
         cm' = [pc |-> "done", comment |-> comment, result |-> analyzeCommentSentiment(comment)]
    /\ UNCHANGED <<decision_votes, responses, stats, rec>>

NextComment == AnalyzeComment

(***************************************************************************)
(* Claims about responses, decision creation and slugs                     *)
(***************************************************************************)
\* COUNT(*) FROM responses WHERE decision_id = $1
ResponseCount(rows, d) == Cardinality({r \in rows : r.decision_id = d})

DuplicateMessage == "viewer already submitted a response for this decision"

C7_Inv ==
    /\ \A d \in {x.id : x \in decisions}, v \in ViewerIDs :
          Cardinality({r \in responses : r.decision_id = d /\ r.viewer_id = v}) <= 1
    /\ \A q \in ResponseIDs :
          (rq[q].pc = "done" /\ rq[q].status = StatusCreated)
             <=> Cardinality({r \in responses : r.id = q}) = 1
    /\ \A r \in responses : r.id \in ResponseIDs

C7_Step(q) ==
    LET d == rq[q].decisionID
        v == rq[q].viewerID
        taken == \E r \in responses : r.decision_id = d /\ r.viewer_id = v
        stored == [id |-> q, decision_id |-> d, viewer_id |-> v, rating |-> rq[q].rating,
                   suggestion |-> rq[q].suggestion, emoji |-> rq[q].emoji,
                   comment |-> rq[q].comment, created_at |-> now]
    IN /\ taken =>
          /\ responses' = responses
          /\ ResponseCount(responses', d) = ResponseCount(responses, d)
          /\ rq'[q].status # StatusCreated
          /\ ~rq'[q].fault => rq'[q].status = StatusConflict /\ rq'[q].err = DuplicateMessage
       /\ ~taken =>
          /\ ~rq'[q].fault => rq'[q].status = StatusCreated /\ responses' = responses \cup {stored}
          /\ rq'[q].fault => responses' = responses

\* C7: there is at most one response per (decision, viewer); a submission for
\* a pair that has none is stored and answered 201, one for a pair that has a
\* response is answered 409 and changes neither that response nor
\* response_count (an error of the store itself is answered 500 and stores
\* nothing); so of two concurrent submissions for one pair one succeeds.
C7_OneResponsePerViewer ==
    /\ []C7_Inv
    /\ [][\A q \in ResponseIDs : rq[q].pc = "insert" /\ rq'[q].pc = "done" => C7_Step(q)]_vars

\* a second submission of the same viewer, with another payload, was refused
C7_Witness ==
    \E q, u \in ResponseIDs :
        /\ rq[q].status = StatusCreated
        /\ rq[u].status = StatusConflict /\ rq[u].err = DuplicateMessage
        /\ Cardinality(responses) = 1

\* C8: decision creation runs at most slugMaxAttempts (8) inserts; each
\* unique violation leads to the next attempt, the first successful insert
\* ends the loop with 201, another store error ends it at once with 500, and
\* 409 is the answer exactly when all 8 attempts hit a unique violation.
C8_BoundedAttempts ==
    \A c \in CreateIDs :
        /\ cr[c].attempts <= slugMaxAttempts
        /\ cr[c].pc = "insert" =>
              /\ cr[c].i < slugMaxAttempts
              /\ cr[c].attempts = cr[c].i
              /\ cr[c].violations = cr[c].i
        /\ cr[c].pc = "done" =>
              /\ cr[c].status \in {StatusCreated, StatusBadRequest, StatusConflict,
                                   StatusInternalServerError}
              /\ cr[c].status = StatusConflict <=> cr[c].violations = slugMaxAttempts
              /\ cr[c].status = StatusConflict => cr[c].attempts = slugMaxAttempts
              /\ cr[c].status \in {StatusCreated, StatusInternalServerError} =>
                    cr[c].attempts = cr[c].violations + 1
              /\ cr[c].status = StatusBadRequest => cr[c].attempts = 0

\* a creation gave up after 8 collisions
C8_Witness ==
    \E c \in CreateIDs : cr[c].pc = "done" /\ cr[c].status = StatusConflict /\ cr[c].attempts = 8

\* C9: no two stored decisions share a slug, whatever the interleaving of the
\* requests; a create answered 201 has stored exactly one row, with the slug
\* returned, and a create answered 400, 409 or 500 has stored none.
C9_UniqueSlugs ==
    /\ \A d, e \in decisions : d.slug = e.slug => d = e
    /\ \A c \in CreateIDs :
          LET mine == {d \in decisions : d.id = ToString(c)}
          IN IF cr[c].pc = "done" /\ cr[c].status = StatusCreated
             THEN Cardinality(mine) = 1 /\ \A d \in mine : d.slug = cr[c].slug
             ELSE mine = {}

\* two creates with the same title both succeeded, the later one after a
\* collision with the slug of the first
C9_Witness ==
    \E d, e \in decisions, c \in CreateIDs :
        /\ d.id # e.id
        /\ d.title = e.title
        /\ e.id = ToString(c)
        /\ cr[c].violations > 0

EndsInSuffix(slug) ==
    /\ Len(slug) >= SuffixLength + 1
    /\ slug[Len(slug) - SuffixLength] = "-"
    /\ \A i \in (Len(slug) - SuffixLength + 1)..Len(slug) : slug[i] \in LowerAscii \cup AsciiDigits

\* C10: for every title that passes title validation the slug of a successful
\* create is accepted unchanged by the slug path-parameter validation (a-z,
\* 0-9 and hyphen only, no hyphen at either end, at most 128 long) and ends in
\* a hyphen and 5 lowercase-alphanumeric characters.
C10_SlugAccepted ==
    (sl.pc = "done" /\ sl.status = StatusCreated) =>
        /\ normalizeSlugParam(sl.slug) = Accepted(sl.slug)
        /\ EndsInSuffix(sl.slug)

(***************************************************************************)
(* The router built by New: the middlewares, the routes and the IP rate    *)
(* limit.  A request runs in its own goroutine; the only state it shares   *)
(* with other requests before its handler is the limiter, behind a mutex.  *)
(***************************************************************************)
GatewayIDs == {1, 2}

\* the instants at which the clock is read, in milliseconds
Instants == {0, 59500, 60000}

\* time.Minute, in milliseconds
rateLimitWindow == 60000
ipRateLimitPerMinute == 120
MillisPerSecond == 1000

\* the limit a limiter of the model is built with: the limit of the code,
\* scaled down to at most MaxLimit requests per window
ScaledLimit(limit) == IF limit > MaxLimit THEN MaxLimit ELSE limit

\* newFixedWindowLimiter, at instant 0
newFixedWindowLimiter(limit, window) ==
    [window |-> window, limit |-> limit, buckets |-> {}, lastCleanup |-> 0]

\* the sweep at the head of Allow
Cleanup(l, t) ==
    IF t - l.lastCleanup >= l.window
    THEN [l EXCEPT !.buckets = {b \in l.buckets : t < b.resetAt}, !.lastCleanup = t]
    ELSE l

\* a bucket that lets one request more through
BucketFullOffByOne(bucket, limit) == bucket.count > limit

\* bucket.count >= l.limit
BucketFull(bucket, limit) == bucket.count >= limit

\* fixedWindowLimiter.Allow, the whole call under the mutex; buckets is a set
\* of records, at most one per key, and a key is the list of its parts
Allow(l, rawKey, t) ==
    IF l.limit <= 0 THEN [limiter |-> l, allowed |-> TRUE, retryAfter |-> 0]
    ELSE LET key == IF rawKey = << >> THEN <<"unknown">> ELSE rawKey
             swept == Cleanup(l, t)
             found == {b \in swept.buckets : b.key = key}
             bucket == IF found = {} \/ ~(t < Deref(found).resetAt)
                       THEN [key |-> key, count |-> 0, resetAt |-> t + l.window]
                       ELSE Deref(found)
         IN IF BucketFull(bucket, l.limit)
            THEN [limiter |-> swept, allowed |-> FALSE, retryAfter |-> bucket.resetAt - t]
            ELSE [limiter |-> [swept EXCEPT !.buckets =
                                 (swept.buckets \ found) \cup {[bucket EXCEPT !.count = @ + 1]}],
                  allowed |-> TRUE, retryAfter |-> 0]

\* int(retryAfter.Seconds()): the conversion truncates toward zero
TruncSeconds(ms) ==
    IF ms >= 0 THEN ms \div MillisPerSecond ELSE -((-ms) \div MillisPerSecond)

\* the seconds writeRateLimitExceeded puts in Retry-After
RetryAfterSeconds(retryAfter) ==
    LET seconds == TruncSeconds(retryAfter)
        bumped == IF retryAfter > 0 /\ seconds = 0 THEN 1 ELSE seconds
    IN IF bumped < 0 THEN 0 ELSE bumped

StatusNoContent == 204
StatusUnauthorized == 401
StatusForbidden == 403
StatusMethodNotAllowed == 405

\* loadAllowedOriginsFromEnv without CORS_ALLOWED_ORIGINS
DefaultOrigins == {"http://localhost:3000", "http://127.0.0.1:3000"}
\* the keys of WRITE_API_KEYS when it is set
ConfiguredKeys == {<<"k", "1">>, <<"k", "2">>}

\* the configurations New can read from the environment
ServerConfigs ==
    [allowedOrigins : {DefaultOrigins}, allowAnyOrigin : BOOLEAN,
     trustProxyHeaders : {FALSE}, writeAPIKeys : {{}, ConfiguredKeys}]

\* r.Get and r.Post of New; group marks the routes registered inside r.Group
Routes ==
    {[method |-> "GET", path |-> "/health", handler |-> "handleHealth", group |-> FALSE],
     [method |-> "GET", path |-> "/api/decisions/{slug}", handler |-> "handleGetDecision",
      group |-> FALSE],
     [method |-> "POST", path |-> "/api/decisions", handler |-> "handleCreateDecision",
      group |-> TRUE],
     [method |-> "POST", path |-> "/api/decisions/{slug}/responses",
      handler |-> "handleCreateResponse", group |-> TRUE],
     [method |-> "POST", path |-> "/api/decisions/{slug}/vote", handler |-> "handleDecisionVote",
      group |-> TRUE],
     [method |-> "POST", path |-> "/api/decisions/{slug}/votes", handler |-> "handleDecisionVote",
      group |-> TRUE]}

\* r.Use of New, outermost first
MiddlewaresUnlimited == <<"securityHeadersMiddleware", "corsMiddleware">>
MiddlewaresLimitFirst ==
    <<"securityHeadersMiddleware", "rateLimitMiddleware", "corsMiddleware">>
MiddlewaresHeadersLast ==
    <<"corsMiddleware", "rateLimitMiddleware", "securityHeadersMiddleware">>
Middlewares == <<"securityHeadersMiddleware", "corsMiddleware", "rateLimitMiddleware">>
\* r.Use inside r.Group
GroupMiddlewaresNone == << >>
GroupMiddlewares == <<"requireWriteAPIKeyMiddleware">>

ValidIPs == {"10.0.0.1", "10.0.0.2", "10.9.9.9"}
parseIPCandidate(raw) == IF raw \in ValidIPs THEN raw ELSE ""

\* a request as it arrives; forwardedFor is the list of the comma-separated
\* parts of X-Forwarded-For, remoteHost the host part of RemoteAddr
GatewayRequest(method, path, origin, apiKey, remoteHost) ==
    [method |-> method, path |-> path, origin |-> origin, apiKey |-> apiKey,
     remoteHost |-> remoteHost, forwardedFor |-> << >>, realIP |-> "", tls |-> FALSE]

GatewayInputs ==
    {GatewayRequest("OPTIONS", "/api/decisions", "", << >>, "10.0.0.1"),
     GatewayRequest("OPTIONS", "/api/decisions", "http://localhost:3000", << >>, "10.0.0.1"),
     GatewayRequest("OPTIONS", "/api/decisions", "https://evil.example", <<"k", "1">>, "10.0.0.1"),
     GatewayRequest("GET", "/health", "", << >>, "10.0.0.1"),
     GatewayRequest("GET", "/api/decisions/{slug}", "https://evil.example", << >>, "10.0.0.2"),
     GatewayRequest("GET", "/nowhere", "", << >>, "10.0.0.1"),
     GatewayRequest("POST", "/api/decisions", "http://localhost:3000", << >>, "10.0.0.1"),
     GatewayRequest("POST", "/api/decisions", "", <<" ">>, "10.0.0.1"),
     GatewayRequest("POST", "/api/decisions/{slug}/responses", "", <<"k", "3">>, "10.0.0.1"),
     GatewayRequest("POST", "/api/decisions/{slug}/vote", "", <<" ", "k", "2", " ">>, "10.0.0.1"),
     GatewayRequest("POST", "/api/decisions/{slug}/votes", "", <<"k", "1">>, "10.0.0.1")}

\* a server that takes the headers whatever TRUST_PROXY_HEADERS says
clientIPTrustingHeaders(req) ==
    LET forwarded == IF req.forwardedFor # << >>
                     THEN parseIPCandidate(req.forwardedFor[1]) ELSE ""
        real == IF req.realIP # "" THEN parseIPCandidate(req.realIP) ELSE ""
    IN IF forwarded # "" THEN forwarded
       ELSE IF real # "" THEN real
       ELSE IF parseIPCandidate(req.remoteHost) # "" THEN parseIPCandidate(req.remoteHost)
       ELSE "unknown"

\* Server.clientIPFromRequest
clientIPFromRequest(req) ==
    LET forwarded == IF srv.trustProxyHeaders /\ req.forwardedFor # << >>
                     THEN parseIPCandidate(req.forwardedFor[1]) ELSE ""
        real == IF srv.trustProxyHeaders /\ req.realIP # ""
                THEN parseIPCandidate(req.realIP) ELSE ""
    IN IF forwarded # "" THEN forwarded
       ELSE IF real # "" THEN real
       ELSE IF parseIPCandidate(req.remoteHost) # "" THEN parseIPCandidate(req.remoteHost)
       ELSE "unknown"

\* Server.isOriginAllowed
isOriginAllowed(origin) == srv.allowAnyOrigin \/ origin \in srv.allowedOrigins

\* a request slot: the request, where it is, the middlewares and the handler
\* that have run for it in order (gates), and the answer so far
IdleGateway ==
    [pc |-> "idle", req |-> GatewayRequest("", "", "", << >>, ""), next |-> 0, clientIP |-> "",
     at |-> 0, gates |-> << >>, headers |-> {}, status |-> 0, err |-> "", retryAfter |-> 0,
     handler |-> "", charged |-> FALSE]

\* writeError, w.WriteHeader or writeJSON in a middleware: the request is over
GatewayAnswer(g, status, err) ==
    [g EXCEPT !.pc = "done", !.status = status, !.err = err, !.next = 0, !.clientIP = "", !.at = 0]

\* securityHeadersMiddleware, up to next.ServeHTTP
securityHeadersMiddleware(g) ==
    [g EXCEPT !.headers = @ \cup {"X-Content-Type-Options", "X-Frame-Options", "Referrer-Policy",
                                  "Content-Security-Policy"}
                            \cup (IF g.req.tls THEN {"Strict-Transport-Security"} ELSE {})]

\* the headers corsMiddleware sets for an allowed origin
corsHeaders(g) ==
    IF g.req.origin # "" /\ isOriginAllowed(g.req.origin)
    THEN {"Access-Control-Allow-Origin", "Access-Control-Allow-Methods",
          "Access-Control-Allow-Headers", "Access-Control-Max-Age"}
         \cup (IF srv.allowAnyOrigin THEN {} ELSE {"Vary"})
    ELSE {}

\* a middleware that answers every request of an origin that is not allowed
corsAnswersForeign(req) ==
    req.method = "OPTIONS" \/ (req.origin # "" /\ ~isOriginAllowed(req.origin))

\* the requests corsMiddleware answers itself: r.Method == MethodOptions
corsAnswers(req) == req.method = "OPTIONS"

\* a handler of the route table runs; what it answers is its own business,
\* but for handleHealth, which answers 200
Handle(g, route) ==
    [GatewayAnswer(g, IF route.handler = "handleHealth" THEN StatusOK ELSE 0, "")
        EXCEPT !.gates = Append(@, route.handler), !.handler = route.handler]

\* the middlewares of the group from the j-th on, then the handler
RECURSIVE ServeGroup(_, _, _)
ServeGroup(g, route, j) ==
    IF j > Len(GroupMiddlewares) THEN Handle(g, route)
    ELSE LET entered == [g EXCEPT !.gates = Append(@, GroupMiddlewares[j])]
             apiKey == TrimSpace(g.req.apiKey)
         IN \* requireWriteAPIKeyMiddleware
            IF Cardinality(srv.writeAPIKeys) = 0 THEN ServeGroup(entered, route, j + 1)
            ELSE IF apiKey = << >>
                 THEN GatewayAnswer(entered, StatusUnauthorized, "missing API key")
            ELSE IF apiKey \notin srv.writeAPIKeys
                 THEN GatewayAnswer(entered, StatusUnauthorized, "invalid API key")
            ELSE ServeGroup(entered, route, j + 1)

\* the router proper: the route of the method and path, or 404 or 405
Route(g) ==
    LET onPath == {route \in Routes : route.path = g.req.path}
        matched == {route \in onPath : route.method = g.req.method}
    IN IF onPath = {} THEN GatewayAnswer(g, StatusNotFound, "404 page not found")
       ELSE IF matched = {} THEN GatewayAnswer(g, StatusMethodNotAllowed, "")
       ELSE LET route == Deref(matched)
            IN IF route.group THEN ServeGroup(g, route, 1) ELSE Handle(g, route)

\* the middlewares of the router from the i-th on, then the router proper; the
\* request stops where it is answered, or before the mutex of the limiter
RECURSIVE ServeFrom(_, _)
ServeFrom(g, i) ==
    IF i > Len(Middlewares) THEN Route(g)
    ELSE LET mw == Middlewares[i]
             entered == [g EXCEPT !.gates = Append(@, mw)]
         IN IF mw = "securityHeadersMiddleware"
            THEN ServeFrom(securityHeadersMiddleware(entered), i + 1)
            ELSE IF mw = "corsMiddleware"
            THEN LET cors == [entered EXCEPT !.headers = @ \cup corsHeaders(g)]
                 IN IF corsAnswers(g.req)
                    THEN IF g.req.origin # "" /\ ~isOriginAllowed(g.req.origin)
                         THEN GatewayAnswer(cors, StatusForbidden, "origin not allowed")
                         ELSE GatewayAnswer(cors, StatusNoContent, "")
                    ELSE ServeFrom(cors, i + 1)
            ELSE \* rateLimitMiddleware, up to the call of Allow
                 IF g.req.method = "OPTIONS" THEN ServeFrom(entered, i + 1)
                 ELSE [entered EXCEPT !.pc = "mutex", !.next = i + 1,
                                      !.clientIP = clientIPFromRequest(g.req), !.at = wall]

\* a request arrives and runs up to its answer or up to the limiter
ServeHTTPWith(r, inputs) ==
    /\ GatewayFrame
    /\ gw[r].pc \in {"idle", "done"}
    /\ \A u \in GatewayIDs : u < r => gw[u].pc = "mutex"
    /\ \E req \in inputs :
         gw' = [gw EXCEPT ![r] = ServeFrom([IdleGateway EXCEPT !.req = req], 1)]
    /\ UNCHANGED <<srv, ipLimiter, wall>>

ServeHTTP(r) == ServeHTTPWith(r, GatewayInputs)

\* requests of one remote address that differ in what they say in
\* X-Forwarded-For and X-Real-Ip, and a request of another address
ProxyInputs ==
    {[GatewayRequest("GET", "/health", "", << >>, "10.0.0.1")
        EXCEPT !.forwardedFor = forwarded, !.realIP = real] :
       forwarded \in {<< >>, <<"10.9.9.9", "10.0.0.1">>}, real \in {"", "10.0.0.2"}}
    \cup {[GatewayRequest("GET", "/health", "", << >>, "10.0.0.1")
             EXCEPT !.forwardedFor = <<"not an address">>],
          GatewayRequest("GET", "/health", "", << >>, "10.0.0.2")}

\* the request takes the mutex: Allow, then 429 or the rest of its way
AllowRequest(r) ==
    /\ GatewayFrame
    /\ gw[r].pc = "mutex"
    /\ LET res == Allow(ipLimiter, <<"ip:", gw[r].clientIP>>, gw[r].at)
       IN /\ ipLimiter' = res.limiter
          /\ gw' = [gw EXCEPT ![r] =
                IF ~res.allowed
                THEN [GatewayAnswer(gw[r], StatusTooManyRequests, "rate limit exceeded")
                        EXCEPT !.retryAfter = RetryAfterSeconds(res.retryAfter),
                               !.headers = @ \cup {"Retry-After"}]
                ELSE ServeFrom([gw[r] EXCEPT !.pc = "serving", !.charged = TRUE], gw[r].next)]
    /\ UNCHANGED <<srv, wall>>

\* time passes
GatewayTick ==
    /\ GatewayFrame
    /\ \E t \in Instants : t > wall /\ wall' = t
    /\ UNCHANGED <<srv, ipLimiter, gw>>

NextGateway ==
    \/ \E r \in GatewayIDs :
          \/ ServeHTTP(r)
          \/ AllowRequest(r)
    \/ GatewayTick

\* requests with an Origin that is allowed and with one that is not, to the
\* writing routes and to a path without a route
OriginInputs ==
    {GatewayRequest(method, "/api/decisions", origin, <<"k", "1">>, "10.0.0.1") :
        method \in {"OPTIONS", "POST"},
        origin \in {"http://localhost:3000", "https://evil.example"}}
    \cup {GatewayRequest("POST", "/api/decisions/{slug}/vote", "https://evil.example",
                         << >>, "10.0.0.1"),
          GatewayRequest("GET", "/nowhere", "https://evil.example", << >>, "10.0.0.2")}

NextOrigin ==
    \/ \E r \in GatewayIDs :
          \/ ServeHTTPWith(r, OriginInputs)
          \/ AllowRequest(r)
    \/ GatewayTick

\* requests with and without proxy headers through the same router
NextProxy ==
    \/ \E r \in GatewayIDs :
          \/ ServeHTTPWith(r, ProxyInputs)
          \/ AllowRequest(r)
    \/ GatewayTick

(***************************************************************************)
(* fixedWindowLimiter.Allow, call by call.  The caller reads the clock     *)
(* (time.Now() in the argument list) and then calls Allow, which takes the *)
(* mutex of the limiter, sweeps, looks its bucket up, checks and counts,   *)
(* and gives the mutex back on return.  Calls run in goroutines of their   *)
(* own, so another call may take the mutex between the reading of the      *)
(* clock and the taking of the mutex.                                      *)
(***************************************************************************)
AllowIDs == 1..MaxAllowCalls

\* the keys of the calls: two client addresses
LimiterKeys == {<<"ip:", "10.0.0.1">>, <<"ip:", "10.0.0.2">>}

NoBucket == [key |-> << >>, count |-> 0, resetAt |-> 0]

\* refAllowed and ref are not state of the program: the answer that a limiter
\* which never sweeps gives to the same call, and the buckets of that limiter
IdleAllow ==
    [pc |-> "idle", key |-> << >>, at |-> 0, bucket |-> NoBucket, allowed |-> FALSE,
     retryAfter |-> 0, refAllowed |-> FALSE]
\* log and returned are not state of the program either: how many calls
\* returned allowed for each key and timestamp, and how many goroutines ended
NoAllowCalls ==
    al = [mu |-> 0, calls |-> [c \in AllowIDs |-> IdleAllow], ref |-> {}, log |-> {},
          returned |-> 0]

\* the log with one more allowed call of the key at the instant
Logged(log, key, at) ==
    LET old == {e \in log : e.key = key /\ e.at = at}
        n == IF old = {} THEN 0 ELSE Deref(old).n
    IN (log \ old) \cup {[key |-> key, at |-> at, n |-> n + 1]}

\* Allow without the sweep at its head, on the buckets given
AllowNeverSweeping(buckets, l, key, t) ==
    LET found == {b \in buckets : b.key = key}
        bucket == IF found = {} \/ ~(t < Deref(found).resetAt)
                  THEN [key |-> key, count |-> 0, resetAt |-> t + l.window]
                  ELSE Deref(found)
    IN IF BucketFull(bucket, l.limit)
       THEN [buckets |-> buckets, allowed |-> FALSE]
       ELSE [buckets |-> (buckets \ found) \cup {[bucket EXCEPT !.count = @ + 1]},
             allowed |-> TRUE]

\* l.mu is locked
MutexHeld == al.mu # 0

\* the caller reads the clock and calls Allow; a limiter without a limit
\* answers before it takes the mutex
CallAllowWith(c, rawKeys) ==
    /\ LimiterFrame
    /\ al.calls[c].pc = "idle"
    /\ \A u \in AllowIDs : u < c => al.calls[u].pc # "idle"
    /\ \E rawKey \in rawKeys :
         LET key == IF rawKey = << >> THEN <<"unknown">> ELSE rawKey
             called == [IdleAllow EXCEPT !.key = key, !.at = wall]
         IN al' = [al EXCEPT !.calls[c] =
                     IF ipLimiter.limit <= 0
                     THEN [called EXCEPT !.pc = "done", !.allowed = TRUE, !.refAllowed = TRUE]
                     ELSE [called EXCEPT !.pc = "lock"],
                              !.log = IF ipLimiter.limit <= 0 THEN Logged(al.log, key, wall)
                                      ELSE al.log]
    /\ UNCHANGED <<ipLimiter, wall>>

\* a call with one of the two addresses or with the empty key
CallAllow(c) == CallAllowWith(c, LimiterKeys \cup {<< >>})

\* l.mu.Lock()
LockMutex(c) ==
    /\ LimiterFrame
    /\ al.calls[c].pc = "lock"
    /\ ~MutexHeld
    /\ al' = [al EXCEPT !.mu = c, !.calls[c].pc = "sweep"]
    /\ UNCHANGED <<ipLimiter, wall>>

\* the sweep, and the bucket of the key or a fresh one
SweepAndLoad(c) ==
    /\ LimiterFrame
    /\ al.calls[c].pc = "sweep"
    /\ LET call == al.calls[c]
           swept == Cleanup(ipLimiter, call.at)
           found == {b \in swept.buckets : b.key = call.key}
           bucket == IF found = {} \/ ~(call.at < Deref(found).resetAt)
                     THEN [key |-> call.key, count |-> 0,
                           resetAt |-> call.at + ipLimiter.window]
                     ELSE Deref(found)
       IN /\ ipLimiter' = swept
          /\ al' = [al EXCEPT !.calls[c].pc = "check", !.calls[c].bucket = bucket]
    /\ UNCHANGED wall

\* the check, the count, the store, and the deferred l.mu.Unlock()
CheckAndStore(c) ==
    /\ LimiterFrame
    /\ al.calls[c].pc = "check"
    /\ LET call == al.calls[c]
           counted == [call.bucket EXCEPT !.count = @ + 1]
           ref == AllowNeverSweeping(al.ref, ipLimiter, call.key, call.at)
       IN IF BucketFull(call.bucket, ipLimiter.limit)
          THEN /\ al' = [al EXCEPT !.mu = 0, !.calls[c].pc = "done",
                                   !.calls[c].allowed = FALSE,
                                   !.calls[c].retryAfter = call.bucket.resetAt - call.at,
                                   !.calls[c].refAllowed = ref.allowed,
                                   !.ref = ref.buckets]
               /\ ipLimiter' = ipLimiter
          ELSE /\ al' = [al EXCEPT !.mu = 0, !.calls[c].pc = "done",
                                   !.calls[c].allowed = TRUE,
                                   !.calls[c].bucket = counted,
                                   !.calls[c].refAllowed = ref.allowed,
                                   !.ref = ref.buckets,
                                   !.log = Logged(al.log, call.key, call.at)]
               /\ ipLimiter' = [ipLimiter EXCEPT !.buckets =
                     {b \in ipLimiter.buckets : b.key # call.key} \cup {counted}]
    /\ UNCHANGED wall

\* time passes
LimiterTick ==
    /\ LimiterFrame
    /\ \E t \in Instants : t > wall /\ wall' = t
    /\ UNCHANGED <<ipLimiter, al>>

NextLimiter ==
    \/ \E c \in AllowIDs :
          \/ CallAllow(c)
          \/ LockMutex(c)
          \/ SweepAndLoad(c)
          \/ CheckAndStore(c)
    \/ LimiterTick

\* the instants of the clock over two windows
BurstInstants == {0, rateLimitWindow, 2 * rateLimitWindow}

\* the goroutine of a call that returned ends; its slot takes the next call
ReturnAllow(c) ==
    /\ LimiterFrame
    /\ al.calls[c].pc = "done"
    /\ al.returned < MaxReturns
    /\ al' = [al EXCEPT !.calls[c] = IdleAllow, !.returned = @ + 1]
    /\ UNCHANGED <<ipLimiter, wall>>

\* time passes, a window at a time
BurstTick ==
    /\ LimiterFrame
    /\ \E t \in BurstInstants : t > wall /\ wall' = t
    /\ UNCHANGED <<ipLimiter, al>>

\* calls of Allow one after another in goroutines that end, over two windows
NextBurst ==
    \/ \E c \in AllowIDs :
          \/ CallAllowWith(c, LimiterKeys)
          \/ LockMutex(c)
          \/ SweepAndLoad(c)
          \/ CheckAndStore(c)
          \/ ReturnAllow(c)
    \/ BurstTick

\* the instant at which a client that was answered 429 to the call of slot c
\* has waited the seconds of Retry-After
WaitedFor(c) == al.calls[c].at + MillisPerSecond * RetryAfterSeconds(al.calls[c].retryAfter)

\* the client of a rejected call waits the seconds writeRateLimitExceeded
\* wrote in Retry-After
ClientWaits(c) ==
    /\ LimiterFrame
    /\ al.calls[c].pc = "done" /\ ~al.calls[c].allowed
    /\ WaitedFor(c) > wall
    /\ wall' = WaitedFor(c)
    /\ UNCHANGED <<ipLimiter, al>>

\* calls of Allow, and clients that retry when Retry-After says
NextRetry ==
    \/ \E c \in AllowIDs :
          \/ CallAllow(c)
          \/ LockMutex(c)
          \/ SweepAndLoad(c)
          \/ CheckAndStore(c)
          \/ ClientWaits(c)
    \/ LimiterTick

(***************************************************************************)
(* allowViewerRequest.  handleGetDecision, handleCreateResponse and        *)
(* handleDecisionVote call it with the viewer id they parsed; it reads the *)
(* clock and calls Allow of the limiter of the viewers.  A request is      *)
(* followed from its parameters to its answer; what the handlers do after  *)
(* the lookup of the decision does not touch the limiter and is modelled   *)
(* with the handlers above.                                                *)
(***************************************************************************)
viewerRateLimitPerMinute == 60
ViewerRequestIDs == 1..MaxViewerRequests

\* uuid.Parse and UUID.String(): the spellings of a UUID name one UUID, and
\* String() writes it in lower case; "VA" is va written in upper case
CanonicalUUID(raw) ==
    IF raw = "VA" THEN [ok |-> TRUE, value |-> "va"]
    ELSE IF raw \in ViewerIDs THEN [ok |-> TRUE, value |-> raw]
    ELSE [ok |-> FALSE, value |-> ""]

ViewerRequest(kind, slug, viewer_id, suggestion, emoji, value) ==
    [kind |-> kind, slug |-> slug, viewer_id |-> viewer_id, suggestion |-> suggestion,
     emoji |-> emoji, value |-> value]

\* GET with and without viewer_id, POST responses and POST vote, valid ones
\* and ones refused after the rate limit (suggestion, emoji, value, slug) or
\* before it (viewer_id)
ViewerInputs ==
    {ViewerRequest("get", SlugOpen, v, 0, << >>, 0) : v \in {"va", "vb", NoViewer}}
    \cup {ViewerRequest("response", SlugOpen, "va", 3, <<"U+1FAE1">>, 0),
          ViewerRequest("response", SlugOpen, "VA", 0, <<"U+1FAE1">>, 0),
          ViewerRequest("response", SlugOpen, "va", 3, <<"x">>, 0),
          ViewerRequest("response", SlugUnknown, "vb", 3, <<"U+1FAE1">>, 0)}
    \cup {ViewerRequest("vote", SlugOpen, "va", 0, << >>, 1),
          ViewerRequest("vote", SlugOpen, "VA", 0, << >>, 2),
          ViewerRequest("vote", SlugOpen, "not-a-uuid", 0, << >>, 1)}

\* charged and bucket are not state of the program: whether Allow counted the
\* request, and the bucket it stored when it did
IdleViewerRequest ==
    [pc |-> "idle", req |-> ViewerRequest("get", SlugOpen, NoViewer, 0, << >>, 0),
     viewerID |-> NoViewer, at |-> 0, charged |-> FALSE, bucket |-> NoBucket,
     status |-> 0, err |-> "", retryAfter |-> 0]

ViewerAnswer(r, status, err) == [r EXCEPT !.pc = "done", !.status = status, !.err = err]

\* the handler after allowViewerRequest, up to the lookup of the decision
AfterViewerGate(r) ==
    LET req == r.req
        found == {d \in StoredDecisions : d.slug = normalizeSlugParam(req.slug).value}
    IN IF req.kind = "response" /\ (req.suggestion < 1 \/ req.suggestion > 3)
       THEN ViewerAnswer(r, StatusBadRequest, "suggestion must be 1, 2, or 3")
       ELSE IF req.kind = "response" /\ ~EmojiKnown(TrimSpace(req.emoji))
       THEN ViewerAnswer(r, StatusBadRequest, "emoji is invalid")
       ELSE IF req.kind = "vote" /\ ~ValueAllowed(req.value)
       THEN ViewerAnswer(r, StatusBadRequest, "value must be -1 or 1")
       ELSE IF found = {} THEN ViewerAnswer(r, StatusNotFound, "decision not found")
       ELSE ViewerAnswer(r, IF req.kind = "response" THEN StatusCreated ELSE StatusOK, "")

\* the handler from its parameters to allowViewerRequest, which reads the
\* clock; GET without viewer_id goes on without it
EnterViewerHandler(r) ==
    /\ ViewerGateFrame
    /\ vg[r].pc = "idle"
    /\ \A u \in ViewerRequestIDs : u < r => vg[u].pc # "idle"
    /\ \E req \in ViewerInputs :
         LET slug == normalizeSlugParam(req.slug)
             parsed == CanonicalUUID(req.viewer_id)
             entered == [IdleViewerRequest EXCEPT !.req = req]
         IN vg' = [vg EXCEPT ![r] =
                     IF ~slug.ok THEN ViewerAnswer(entered, StatusBadRequest, "slug is invalid")
                     ELSE IF req.kind = "get" /\ req.viewer_id = NoViewer
                          THEN AfterViewerGate(entered)
                     ELSE IF ~parsed.ok
                          THEN ViewerAnswer(entered, StatusBadRequest,
                                            "viewer_id must be a valid UUID")
                     ELSE [entered EXCEPT !.pc = "gate", !.viewerID = parsed.value,
                                          !.at = wall]]
    /\ UNCHANGED <<viewerLimiter, wall>>

\* s.viewerLimiter.Allow("viewer:"+viewerID, now) under the mutex, then 429
\* or the rest of the handler
AllowViewerRequest(r) ==
    /\ ViewerGateFrame
    /\ vg[r].pc = "gate"
    /\ LET key == <<"viewer:", vg[r].viewerID>>
           res == Allow(viewerLimiter, key, vg[r].at)
       IN /\ viewerLimiter' = res.limiter
          /\ vg' = [vg EXCEPT ![r] =
                IF ~res.allowed
                THEN [ViewerAnswer(vg[r], StatusTooManyRequests, "rate limit exceeded")
                        EXCEPT !.retryAfter = RetryAfterSeconds(res.retryAfter)]
                ELSE AfterViewerGate([vg[r] EXCEPT !.charged = TRUE,
                        !.bucket = Deref({b \in res.limiter.buckets : b.key = key})])]
    /\ UNCHANGED wall

\* time passes
ViewerTick ==
    /\ ViewerGateFrame
    /\ \E t \in Instants : t > wall /\ wall' = t
    /\ UNCHANGED <<viewerLimiter, vg>>

NextViewerGate ==
    \/ \E r \in ViewerRequestIDs :
          \/ EnterViewerHandler(r)
          \/ AllowViewerRequest(r)
    \/ ViewerTick

\* the closed check of the request of slot q, told from the decision of its slug
C15_Step(q) ==
    LET found == {d \in decisions : d.slug = rq[q].slug}
        closesAt == Deref(found).closes_at
    IN found # {} =>
          /\ (closesAt # Nil /\ now > Deref(closesAt)) =>
                /\ rq'[q].pc = "done" /\ responses' = responses
                /\ ~rq'[q].fault =>
                      rq'[q].status = StatusConflict /\ rq'[q].err = "decision is closed"
          /\ (closesAt = Nil \/ now <= Deref(closesAt)) => rq'[q].err # "decision is closed"

\* C15: a response submission whose decision is looked up after the close
\* timestamp of the decision has passed is answered 409 "decision is closed"
\* (500 when the lookup itself fails) and goes no further, so it stores
\* nothing; a submission to a decision without a close timestamp is never
\* answered "decision is closed".
C15_ClosedRejects ==
    /\ [][\A q \in ResponseIDs : rq[q].pc = "find" /\ rq'[q].pc # "find" => C15_Step(q)]_vars
    /\ [](\A q \in ResponseIDs : rq[q].err = "decision is closed" => rq[q].status = StatusConflict)

\* after the close time a submission was refused, one made before was stored
C15_Witness ==
    \E q, u \in ResponseIDs :
        /\ rq[q].pc = "done" /\ rq[q].err = "decision is closed" /\ rq[q].status = StatusConflict
        /\ now > 1
        /\ \E r \in responses : r.id = u /\ r.decision_id = "d2"

\* C16: the rating of a stored response is the table entry of its emoji (the
\* emoji sent, trimmed), between 1 and 5, whatever rating the client sent, so
\* responses with the same emoji store the same rating; a submission whose
\* emoji is not in the table is refused (400, or 429 by the viewer's rate
\* limit before) and stores nothing.
C16_RatingFromEmoji ==
    /\ \A r \in responses :
          /\ EmojiKnown(r.emoji)
          /\ r.emoji = TrimSpace(rq[r.id].sent.emoji)
          /\ r.rating = emojiRatings[r.emoji[1]]
          /\ r.rating \in 1..5
    /\ \A r, t \in responses : r.emoji = t.emoji => r.rating = t.rating
    /\ \A q \in ResponseIDs :
          (rq[q].pc # "idle" /\ ~EmojiKnown(TrimSpace(rq[q].sent.emoji))) =>
              /\ rq[q].pc = "done"
              /\ rq[q].status \in {StatusBadRequest, StatusTooManyRequests}
              /\ \A r \in responses : r.id # q

\* two stored responses with the same emoji whose requests carried different
\* ratings, one of them no rating of the scale
C16_Witness ==
    \E r, t \in responses :
        /\ r.emoji = t.emoji /\ r.rating = t.rating
        /\ rq[r.id].sent.rating # rq[t.id].sent.rating
        /\ rq[r.id].sent.rating \notin 1..5

\* C21: for POST /api/decisions/{slug}/responses every input-validation
\* failure is decided before any domain logic or store access runs: a request
\* goes on to the lookup of the decision only with a valid viewer_id,
\* suggestion, emoji and comment, and one whose comment is invalid is answered
\* 400 whether or not the slug names a decision and whether or not that
\* decision is closed.
C21_ValidationFirst ==
    [][\A q \in ResponseIDs :
          /\ (rq[q].pc # "find" /\ rq'[q].pc = "find") =>
                 /\ IsUUID(rq'[q].viewerID)
                 /\ rq'[q].suggestion \in 1..3
                 /\ EmojiKnown(rq'[q].emoji)
                 /\ normalizeComment(rq'[q].comment).ok
          /\ (rq[q].pc = "find" /\ rq'[q].pc # "find"
                 /\ ~normalizeComment(rq[q].comment).ok /\ ~rq'[q].fault) =>
                 rq'[q].status = StatusBadRequest]_vars

\* a body over the ceiling of its endpoint, with a field the endpoint does not
\* know, or with more than one JSON value
BadBody(body, maxBytes, known) ==
    body.bytes > maxBytes \/ ~(body.fields \subseteq known) \/ body.values > 1

StoreUnchanged ==
    decisions' = decisions /\ responses' = responses /\ decision_votes' = decision_votes

\* C22: a request with a body over the ceiling of its endpoint (4096 bytes for
\* a decision or a response, 2048 for a vote), with an unknown field or with
\* more than one JSON value is answered 400 whatever else it holds, and
\* changes no table.
C22_BodyRejected ==
    [][/\ \A c \in CreateIDs :
             (cr[c].pc = "idle" /\ cr'[c].pc # "idle"
                /\ BadBody(cr'[c].body, 4096, createDecisionRequest)) =>
                   cr'[c].pc = "done" /\ cr'[c].status = StatusBadRequest /\ StoreUnchanged
       /\ \A q \in ResponseIDs :
             (rq[q].pc = "idle" /\ rq'[q].pc # "idle"
                /\ BadBody(rq'[q].sent.body, 4096, decisionResponsePayload)) =>
                   rq'[q].pc = "done" /\ rq'[q].status = StatusBadRequest /\ StoreUnchanged
       /\ \A t \in ToggleIDs :
             (tx[t].pc = "idle" /\ tx'[t].pc # "idle"
                /\ BadBody(tx'[t].body, 2048, voteRequest)) =>
                   tx'[t].pc = "done" /\ tx'[t].status = StatusBadRequest /\ StoreUnchanged]_vars

\* a vote whose one value is followed by white space past the ceiling, a
\* response of two values and a decision with an unknown field were all refused
C22_Witness ==
    /\ tx[1].pc = "done" /\ tx[1].status = StatusBadRequest
    /\ tx[1].body.first <= maxVoteBodyBytes /\ tx[1].body.bytes > maxVoteBodyBytes
    /\ rq[1].pc = "done" /\ rq[1].status = StatusBadRequest /\ rq[1].sent.body.values > 1
    /\ cr[1].pc = "done" /\ cr[1].status = StatusBadRequest
    /\ ~(cr[1].body.fields \subseteq createDecisionRequest)
    /\ decisions = StoredDecisions /\ responses = StoredResponses
    /\ decision_votes = StoredVotes

\* C23: a decision or a response, once stored, is in the table with the same
\* fields in every later state, whatever requests follow; rows of the vote
\* table are the only ones updated or deleted.
C23_StoredRowsStay ==
    [][/\ \A d \in decisions : d \in decisions'
       /\ \A r \in responses : r \in responses']_vars

\* a decision and a response were added to the stored ones, and the vote of va
\* was deleted by a toggle
C23_Witness ==
    /\ Cardinality(decisions) = 3 /\ StoredDecisions \subseteq decisions
    /\ Cardinality(responses) = 2 /\ StoredResponses \subseteq responses
    /\ tx[1].pc = "done" /\ tx[1].status = StatusOK
    /\ RowsOfPair(decision_votes, "d1", "va") = {}

\* C24: a vote of the earlier generation is only ever inserted: the first vote
\* of a viewer on a response is answered 201 and stored, a second vote of the
\* viewer on the response, of either value, is answered 409 and the stored
\* vote stays as it is, and a vote on an unknown response is answered 404 and
\* stores nothing.
C24_InsertOnly ==
    [][LET req == legacy'.last
           valid == /\ req.responseID \in LegacyResponseUUIDs
                    /\ IsUUID(req.voter_viewer_id)
                    /\ req.value \in VoteValues
                    /\ ~BadBody(req.body, req.body.bytes, legacyVoteRequest)
                    /\ ~req.fault
           before == {r \in legacy.votes : r.response_id = req.responseID
                                            /\ r.voter_viewer_id = req.voter_viewer_id}
           after == {r \in legacy'.votes : r.response_id = req.responseID
                                            /\ r.voter_viewer_id = req.voter_viewer_id}
       IN /\ \A r \in legacy.votes : r \in legacy'.votes
          /\ (valid /\ req.responseID \in LegacyResponses /\ before = {}) =>
                 /\ req.status = StatusCreated
                 /\ Cardinality(after) = 1 /\ \A r \in after : r.value = req.value
                 /\ legacy'.votes \ after = legacy.votes
          /\ (valid /\ before # {}) =>
                 req.status = StatusConflict /\ legacy'.votes = legacy.votes
          /\ (valid /\ req.responseID \notin LegacyResponses) =>
                 req.status = StatusNotFound /\ legacy'.votes = legacy.votes
          /\ req.status # StatusCreated => legacy'.votes = legacy.votes]_vars

\* a vote of the opposite value on a response the viewer had voted on was
\* answered 409, and the stored vote is the first one
C24_Witness ==
    /\ legacy.last.status = StatusConflict
    /\ \E r \in legacy.votes :
          /\ r.response_id = legacy.last.responseID
          /\ r.voter_viewer_id = legacy.last.voter_viewer_id
          /\ r.value = -legacy.last.value

\* call u is the call after call t, for the same decision, viewer and value,
\* both answered 200 and neither with another transaction open beside it:
\* stated of the step that ends call u
SameRequestAgain(t, u) ==
    /\ u = t + 1
    /\ tx[t].pc = "done" /\ tx[t].status = StatusOK /\ tx[t].solo
    /\ tx[u].pc = "commit" /\ tx'[u].pc = "done" /\ tx'[u].status = StatusOK /\ tx'[u].solo
    /\ tx'[u].decisionID = tx[t].decisionID
    /\ tx'[u].viewerID = tx[t].viewerID
    /\ tx'[u].value = tx[t].value

\* C25 as stated: the same vote request sent twice in a row leaves the vote
\* state and returns the summary of sending it once.
C25_Idempotent ==
    [][\A t, u \in ToggleIDs :
          SameRequestAgain(t, u) =>
             /\ decision_votes' = decision_votes
             /\ tx'[u].summary = tx[t].summary]_vars

\* C25, amended: of two identical vote requests in a row one stores the vote
\* of the viewer with the value sent and the other removes it, so that the
\* vote state and my_vote of the summary after the second differ from those
\* after the first; a third identical request in a row returns the summary of
\* the first.
C25_Alternates ==
    [][\A t, u \in ToggleIDs :
          SameRequestAgain(t, u) =>
             LET first == PairValue(decision_votes, tx[t].decisionID, tx[t].viewerID)
                 second == PairValue(decision_votes', tx[t].decisionID, tx[t].viewerID)
             IN /\ {first, second} = {0, tx[t].value}
                /\ tx[t].summary.my_vote = first
                /\ tx'[u].summary.my_vote = second
                /\ tx'[u].summary # tx[t].summary
                /\ \A r \in ToggleIDs :
                      (r + 1 = t /\ tx[r].pc = "done" /\ tx[r].status = StatusOK /\ tx[r].solo
                         /\ tx[r].decisionID = tx[t].decisionID
                         /\ tx[r].viewerID = tx[t].viewerID
                         /\ tx[r].value = tx[t].value) =>
                            tx'[u].summary = tx[r].summary]_vars

\* three identical requests were sent in a row: the vote was stored, removed
\* and stored again
C25_Witness ==
    /\ \A t \in 1..3 : /\ tx[t].pc = "done" /\ tx[t].status = StatusOK /\ tx[t].solo
                        /\ tx[t].decisionID = "d1" /\ tx[t].viewerID = "va" /\ tx[t].value = 1
    /\ tx[1].summary.my_vote = 1 /\ tx[2].summary.my_vote = 0 /\ tx[3].summary.my_vote = 1
    /\ PairValue(decision_votes, "d1", "va") = 1

SecurityHeaders ==
    {"X-Content-Type-Options", "X-Frame-Options", "Referrer-Policy", "Content-Security-Policy"}

\* C26: every answer to a request, the 429 of the rate limit, the 401 of the
\* key check, the 403 and 204 of a preflight and the answers of the router and
\* of the handlers among them, carries the four security headers: the
\* middleware that sets them is the first gate of every request.
C26_SecurityHeaders ==
    \A r \in GatewayIDs :
        gw[r].pc # "idle" =>
           /\ gw[r].gates[1] = "securityHeadersMiddleware"
           /\ SecurityHeaders \subseteq gw[r].headers

\* one request was refused by the rate limit and another by the key check
C26_Witness ==
    \E r, u \in GatewayIDs :
        /\ gw[r].pc = "done" /\ gw[r].status = StatusTooManyRequests
        /\ gw[u].pc = "done" /\ gw[u].status = StatusUnauthorized
        /\ SecurityHeaders \subseteq gw[r].headers \cap gw[u].headers

\* C27: every row of decision_votes has value -1 or 1 in every reachable
\* state; a vote request with another value, unless its viewer is over the
\* rate limit and answered 429 before the value is looked at, is answered 400,
\* and in either case leaves the table as it is; a row that a step writes is
\* written by the commit of a toggle, for its viewer and with the value of its
\* request.
C27_VoteValues ==
    [][/\ \A r \in decision_votes \cup decision_votes' : r.value \in {-1, 1}
       /\ \A t \in ToggleIDs :
             (tx[t].pc = "idle" /\ tx'[t].pc # "idle" /\ tx'[t].value \notin {-1, 1}) =>
                /\ tx'[t].pc = "done"
                /\ tx'[t].status \in {StatusBadRequest, StatusTooManyRequests}
                /\ tx'[t].status = StatusTooManyRequests => tx'[t].err = "rate limit exceeded"
                /\ decision_votes' = decision_votes
       /\ \A r \in decision_votes' \ decision_votes :
             \E t \in ToggleIDs :
                /\ tx[t].pc = "commit" /\ tx'[t].pc = "done" /\ tx'[t].status = StatusOK
                /\ r.decision_id = tx'[t].decisionID
                /\ r.voter_viewer_id = tx'[t].viewerID
                /\ r.value = tx'[t].value]_vars

\* a request with value 0 was answered 400 after a vote of value -1 had been
\* stored: the table holds that vote
C27_Witness ==
    /\ tx[1].pc = "done" /\ tx[1].status = StatusOK /\ tx[1].value = -1
    /\ tx[2].pc = "done" /\ tx[2].status = StatusBadRequest /\ tx[2].value = 0
    /\ tx[2].err = "value must be -1 or 1"
    /\ \E r \in decision_votes : r.decision_id = "d1" /\ r.value = -1

\* C28: a vote summary, of a toggle or of a GET, has score = upvotes -
\* downvotes, upvotes + downvotes = the number of rows of the decision that its
\* statement read, and my_vote -1, 0 or 1; the summary a toggle returns when no
\* other transaction was open beside it has my_vote = the value stored for the
\* viewer after it, 0 when it removed the vote; the summary of a GET has
\* my_vote = the value stored for the viewer of its viewer_id, 0 without one.
C28_Summary ==
    [][\A t \in ToggleIDs :
          LET s == tx'[t].summary
              d == tx'[t].decisionID
              v == tx'[t].viewerID
              rowsOf(rows) == {r \in rows : r.decision_id = d}
              sound(rows) == /\ s.score = s.upvotes - s.downvotes
                             /\ s.upvotes + s.downvotes = Cardinality(rowsOf(rows))
                             /\ s.my_vote \in {-1, 0, 1}
          IN /\ (tx[t].pc = "summary" /\ tx'[t].pc = "commit") => sound(VisibleRows(t))
             /\ (tx[t].pc = "commit" /\ tx'[t].pc = "done"
                    /\ tx'[t].status = StatusOK /\ tx'[t].solo) =>
                       /\ sound(decision_votes')
                       /\ s.my_vote = PairValue(decision_votes', d, v)
                       /\ s.my_vote = ToggleValue(PairValue(decision_votes, d, v), tx'[t].value)
             /\ (tx[t].pc = "idle" /\ tx'[t].pc = "done" /\ tx'[t].op = "get"
                    /\ tx'[t].status = StatusOK) =>
                       /\ sound(decision_votes)
                       /\ v = NoViewer => s.my_vote = 0
                       /\ v # NoViewer => s.my_vote = PairValue(decision_votes, d, v)]_vars

\* a toggle stored a vote and returned my_vote 1, and a GET without viewer_id
\* then counted the vote and returned my_vote 0
C28_Witness ==
    \E t, u \in ToggleIDs :
        /\ tx[t].pc = "done" /\ tx[t].status = StatusOK /\ tx[t].op = "none" /\ tx[t].solo
        /\ tx[t].summary.my_vote = 1
        /\ tx[u].pc = "done" /\ tx[u].status = StatusOK /\ tx[u].op = "get"
        /\ tx[u].viewerID = NoViewer
        /\ tx[u].summary = [score |-> 1, upvotes |-> 1, downvotes |-> 0, my_vote |-> 0]

\* C29: rating_counts of the stats has five entries, one per rating from 1
\* to 5 in that order, and they add up to response_count; the counts of the
\* three categories add up to response_count as well.
C29_CountsAddUp ==
    stats.pc = "done" =>
       LET r == stats.result
           counts == r.rating_counts
       IN /\ DOMAIN counts = 1..5
          /\ \A k \in 1..5 :
                counts[k] = Cardinality({x \in responses : x.decision_id = "d1" /\ x.rating = k})
          /\ counts[1] + counts[2] + counts[3] + counts[4] + counts[5] = r.response_count
          /\ r.categories.do_it + r.categories.dont_do_it + r.categories.mixed
                = r.response_count
          /\ r.response_count = Cardinality({x \in responses : x.decision_id = "d1"})

\* the stats of two responses, of ratings 1 and 5 and of categories don't do
\* it and do it
C29_Witness ==
    /\ stats.pc = "done"
    /\ stats.result.response_count = 2
    /\ stats.result.rating_counts = <<1, 0, 0, 0, 1>>
    /\ stats.result.categories = [do_it |-> 1, dont_do_it |-> 1, mixed |-> 0]

\* the timestamp of the call of slot u falls in the window of the bucket
InWindow(u, bucket) ==
    /\ bucket.resetAt - ipLimiter.window <= al.calls[u].at
    /\ al.calls[u].at < bucket.resetAt

\* the calls made on the key of the bucket, and those that returned allowed
CallsOn(key) == {u \in AllowIDs : al.calls[u].pc # "idle" /\ al.calls[u].key = key}
AllowedOn(key) == {u \in CallsOn(key) : al.calls[u].pc = "done" /\ al.calls[u].allowed}

\* C30: under a limiter with a limit, the stored count of a bucket never
\* exceeds the limit, and when the timestamps of all the calls of Allow made
\* on one key fall in one window (the window of the bucket that one of them
\* was counted in) at most limit of them return allowed, however these calls
\* and the calls on other keys interleave.
C30_AtMostLimit ==
    ipLimiter.limit > 0 =>
       /\ \A b \in ipLimiter.buckets : b.count <= ipLimiter.limit
       /\ \A c \in AllowIDs :
             LET bucket == al.calls[c].bucket
             IN (/\ c \in AllowedOn(bucket.key)
                 /\ \A u \in CallsOn(bucket.key) : InWindow(u, bucket))
                => Cardinality(AllowedOn(bucket.key)) <= ipLimiter.limit

\* C33: every stored response of a decision that has a close timestamp was
\* inserted at a time not later than that timestamp.
C33_InsertedBeforeClose ==
    \A r \in responses, d \in decisions :
       (r.decision_id = d.id /\ d.closes_at # Nil) => r.created_at <= Deref(d.closes_at)

(***************************************************************************)
(* Claims about the rate limiter and the router                            *)
(***************************************************************************)
\* the bucket of a key in a limiter, as a set with at most one member
BucketOf(l, key) == {b \in l.buckets : b.key = key}

C11_Inv ==
    /\ \A b \in ipLimiter.buckets : b.count >= 1 /\ b.count <= ipLimiter.limit
    /\ \A b, c \in ipLimiter.buckets : b.key = c.key => b = c
    /\ \A r \in GatewayIDs :
          (gw[r].pc = "done" /\ gw[r].status = StatusTooManyRequests)
             => gw[r].retryAfter >= 1 /\ "Retry-After" \in gw[r].headers /\ ~gw[r].charged

\* one call of Allow for the request of slot r, told from the bucket of its key
C11_Step(r) ==
    LET key == <<"ip:", gw[r].clientIP>>
        open == {b \in BucketOf(ipLimiter, key) : gw[r].at < b.resetAt}
        after == BucketOf(ipLimiter', key)
    IN /\ (open # {} /\ Deref(open).count < ipLimiter.limit) =>
             /\ gw'[r].charged /\ gw'[r].status # StatusTooManyRequests
             /\ after = {[Deref(open) EXCEPT !.count = @ + 1]}
       /\ (open # {} /\ Deref(open).count >= ipLimiter.limit) =>
             /\ gw'[r].status = StatusTooManyRequests
             /\ gw'[r].retryAfter >= 1
             /\ after = open
       /\ open = {} =>
             /\ gw'[r].charged /\ gw'[r].status # StatusTooManyRequests
             /\ after = {[key |-> key, count |-> 1, resetAt |-> gw[r].at + rateLimitWindow]}

RouteOf(req) == {route \in Routes : route.path = req.path /\ route.method = req.method}

IsWriteRoute(req) == \E route \in RouteOf(req) : route.group

\* the gates of New in their order, for a request that is not a preflight
GateOrder(req) ==
    <<"securityHeadersMiddleware", "corsMiddleware", "rateLimitMiddleware">>
    \o (IF IsWriteRoute(req) THEN <<"requireWriteAPIKeyMiddleware">> ELSE << >>)
    \o (IF RouteOf(req) = {} THEN << >> ELSE <<Deref(RouteOf(req)).handler>>)

IsPrefix(s, t) == Len(s) <= Len(t) /\ \A i \in 1..Len(s) : s[i] = t[i]

C12_Inv ==
    \A r \in GatewayIDs :
        (gw[r].pc # "idle" /\ gw[r].req.method # "OPTIONS") =>
            /\ IsPrefix(gw[r].gates, GateOrder(gw[r].req))
            /\ gw[r].pc = "mutex" => gw[r].gates = SubSeq(GateOrder(gw[r].req), 1, 3)
            /\ (gw[r].pc = "done" /\ gw[r].status = StatusTooManyRequests) =>
                  /\ gw[r].gates = SubSeq(GateOrder(gw[r].req), 1, 3)
                  /\ gw[r].handler = "" /\ ~gw[r].charged
            /\ (gw[r].pc = "done" /\ gw[r].status = StatusUnauthorized) =>
                  /\ gw[r].gates = SubSeq(GateOrder(gw[r].req), 1, 4)
                  /\ IsWriteRoute(gw[r].req)
                  /\ gw[r].handler = "" /\ gw[r].charged
            /\ (gw[r].pc = "done" /\ gw[r].handler # "") =>
                  gw[r].gates = GateOrder(gw[r].req) /\ gw[r].charged

\* the budget of the key is one unit smaller after a request that went on to
\* the API-key check
C12_Step(r) ==
    LET key == <<"ip:", gw[r].clientIP>>
        open == {b \in BucketOf(ipLimiter, key) : gw[r].at < b.resetAt}
        used == IF open = {} THEN 0 ELSE Deref(open).count
    IN gw'[r].charged =>
          \E b \in BucketOf(ipLimiter', key) : b.count = used + 1

\* C12: a request that is not a preflight passes security headers, CORS, the
\* IP rate limit, the API-key check (write routes only) and the handler in
\* that order; one answered 429 by the IP rate limit has met neither the
\* API-key check nor a handler, and one answered 401 by the API-key check has
\* met no handler and has taken one unit of the budget of its IP.
C12_GateOrder ==
    /\ []C12_Inv
    /\ [][\A r \in GatewayIDs : gw[r].pc = "mutex" /\ gw'[r].pc = "done" => C12_Step(r)]_vars

\* a request refused for its key used up the budget that the next one lacked
C12_Witness ==
    \E r, u \in GatewayIDs :
        /\ gw[r].pc = "done" /\ gw[r].status = StatusUnauthorized /\ gw[r].charged
        /\ gw[u].pc = "done" /\ gw[u].status = StatusTooManyRequests
        /\ IsWriteRoute(gw[u].req)

\* C13: a preflight (OPTIONS) request is answered by the CORS gate: 403 when
\* its Origin is set and not allowed, 204 otherwise; it meets neither the IP
\* rate limiter nor the API-key check nor a handler, and takes nothing from
\* the budget of its IP.
C13_Preflight ==
    \A r \in GatewayIDs :
        (gw[r].pc # "idle" /\ gw[r].req.method = "OPTIONS") =>
            /\ gw[r].pc = "done"
            /\ gw[r].status =
                  (IF gw[r].req.origin # "" /\ ~srv.allowAnyOrigin
                      /\ gw[r].req.origin \notin srv.allowedOrigins
                   THEN StatusForbidden ELSE StatusNoContent)
            /\ gw[r].gates = <<"securityHeadersMiddleware", "corsMiddleware">>
            /\ gw[r].handler = "" /\ ~gw[r].charged

\* a preflight from a foreign origin was answered 403 while the budget of its
\* IP was used up
C13_Witness ==
    \E r \in GatewayIDs :
        /\ gw[r].pc = "done" /\ gw[r].req.method = "OPTIONS" /\ gw[r].status = StatusForbidden
        /\ \E b \in ipLimiter.buckets :
              /\ b.key = <<"ip:", gw[r].req.remoteHost>>
              /\ b.count = ipLimiter.limit /\ wall < b.resetAt

\* C14: with a write API key configured, a request to a write route whose
\* X-API-Key is missing or is none of the keys is refused (401, or 429 by the
\* rate limit before) and meets no handler, so it changes nothing in the
\* store; GET /health and GET /api/decisions/{slug} are never answered 401
\* and rejected by nothing but the rate limit; with no key configured a
\* request to a write route meets its handler whatever its key.
C14_WriteKey ==
    \A r \in GatewayIDs :
        (gw[r].pc = "done" /\ gw[r].req.method # "OPTIONS" /\ RouteOf(gw[r].req) # {}) =>
            LET req == gw[r].req
                limited == gw[r].status = StatusTooManyRequests
                known == TrimSpace(req.apiKey) \in srv.writeAPIKeys
                ran == gw[r].handler = Deref(RouteOf(req)).handler
            IN /\ (IsWriteRoute(req) /\ srv.writeAPIKeys # {} /\ ~known) =>
                     /\ gw[r].handler = ""
                     /\ ~limited => gw[r].status = StatusUnauthorized
               /\ (IsWriteRoute(req) /\ srv.writeAPIKeys # {} /\ known /\ ~limited) => ran
               /\ (IsWriteRoute(req) /\ srv.writeAPIKeys = {} /\ ~limited) => ran
               /\ ~IsWriteRoute(req) => gw[r].status # StatusUnauthorized /\ (~limited => ran)

\* with keys configured a write without a key and one with a wrong key were
\* refused while the budget was not used up
C14_Witness ==
    \E r, u \in GatewayIDs :
        /\ srv.writeAPIKeys # {}
        /\ gw[r].pc = "done" /\ gw[r].err = "missing API key"
        /\ gw[u].pc = "done" /\ gw[u].err = "invalid API key"
        /\ gw[r].status = StatusUnauthorized /\ gw[u].status = StatusUnauthorized

\* the call of slot c ends rejected in this step
RejectedNow(c) == al.calls[c].pc = "check" /\ al'.calls[c].pc = "done" /\ ~al'.calls[c].allowed

\* the sweep of a call that is going to be rejected leaves the bucket of its
\* key as it was, and the rejection stores nothing
RejectedFrame(c) ==
    /\ (al.calls[c].pc = "sweep" /\ BucketFull(al'.calls[c].bucket, ipLimiter.limit)) =>
          BucketOf(ipLimiter', al.calls[c].key) = BucketOf(ipLimiter, al.calls[c].key)
    /\ RejectedNow(c) => ipLimiter' = ipLimiter

\* C31: a rejected call of Allow leaves the bucket of its key as it was, count
\* and reset time, and the wait it returns is the reset time minus the now of
\* the call, more than 0 and at most one window.
C31_RejectedFrame ==
    [][\A c \in AllowIDs :
          /\ RejectedFrame(c)
          /\ RejectedNow(c) =>
                /\ al'.calls[c].retryAfter = al.calls[c].bucket.resetAt - al.calls[c].at
                /\ al'.calls[c].retryAfter > 0
                /\ al'.calls[c].retryAfter <= ipLimiter.window]_vars

\* the same without the upper bound of the wait
C31_FrameOnly ==
    [][\A c \in AllowIDs :
          /\ RejectedFrame(c)
          /\ RejectedNow(c) =>
                /\ al'.calls[c].retryAfter = al.calls[c].bucket.resetAt - al.calls[c].at
                /\ al'.calls[c].retryAfter > 0]_vars

\* the sweep of the call of slot c runs in this step
SweepsNow(c) == al.calls[c].pc = "sweep" /\ ipLimiter'.lastCleanup # ipLimiter.lastCleanup

\* C32: the sweep runs at most once per window duration (a sweep is stamped a
\* window or more after the one before), it deletes only buckets whose reset
\* time the now of the call has reached, it keeps every other bucket as it
\* is, and every call of Allow gets the answer that a limiter which never
\* sweeps gives to the same calls in the same order.
C32_SweepInvisible ==
    /\ [][\A c \in AllowIDs :
             al.calls[c].pc = "sweep" =>
                /\ SweepsNow(c) =>
                      /\ al.calls[c].at - ipLimiter.lastCleanup >= ipLimiter.window
                      /\ ipLimiter'.lastCleanup = al.calls[c].at
                /\ ipLimiter'.buckets \subseteq ipLimiter.buckets
                /\ \A b \in ipLimiter.buckets :
                      b \notin ipLimiter'.buckets =>
                         SweepsNow(c) /\ b.resetAt <= al.calls[c].at]_vars
    /\ [](\A c \in AllowIDs :
             al.calls[c].pc = "done" => al.calls[c].allowed = al.calls[c].refAllowed)

\* the same without the comparison with the limiter that never sweeps
C32_SweepOnlyExpired ==
    [][\A c \in AllowIDs :
          al.calls[c].pc = "sweep" =>
             /\ SweepsNow(c) =>
                   /\ al.calls[c].at - ipLimiter.lastCleanup >= ipLimiter.window
                   /\ ipLimiter'.lastCleanup = al.calls[c].at
             /\ ipLimiter'.buckets \subseteq ipLimiter.buckets
             /\ \A b \in ipLimiter.buckets :
                   b \notin ipLimiter'.buckets =>
                      SweepsNow(c) /\ b.resetAt <= al.calls[c].at]_vars

\* the requests of the viewer that reached allowViewerRequest, and those that
\* got past it
GateCallsOf(viewer) ==
    {r \in ViewerRequestIDs : vg[r].pc \in {"gate", "done"} /\ vg[r].viewerID = viewer}
PassedGateOf(viewer) == {r \in GateCallsOf(viewer) : vg[r].charged}

\* the viewer rate limit is one budget per viewer and every request that gets
\* past allowViewerRequest takes one unit of it, whatever its answer is
ViewerBudgetShared ==
    /\ \A b \in viewerLimiter.buckets :
          /\ \E v \in ViewerIDs : b.key = <<"viewer:", v>>
          /\ b.count <= viewerLimiter.limit
    /\ \A r \in ViewerRequestIDs :
          /\ vg[r].charged =>
                vg[r].bucket.key = <<"viewer:", CanonicalUUID(vg[r].req.viewer_id).value>>
          /\ vg[r].pc = "done" =>
                /\ vg[r].err \in {"suggestion must be 1, 2, or 3", "emoji is invalid",
                                  "value must be -1 or 1"} => vg[r].charged
                /\ (vg[r].status \in {StatusOK, StatusCreated, StatusNotFound}
                    /\ vg[r].req.viewer_id # NoViewer) => vg[r].charged
                /\ vg[r].req.viewer_id = NoViewer => ~vg[r].charged
                /\ vg[r].status = StatusTooManyRequests => ~vg[r].charged

\* of the requests of a viewer stamped in one window, the window of a bucket
\* one of them was counted in, at most limit got past allowViewerRequest
ViewerBudgetPerWindow ==
    \A r \in ViewerRequestIDs :
       (/\ vg[r].charged
        /\ \A u \in GateCallsOf(vg[r].viewerID) :
              /\ vg[r].bucket.resetAt - viewerLimiter.window <= vg[u].at
              /\ vg[u].at < vg[r].bucket.resetAt)
       => Cardinality(PassedGateOf(vg[r].viewerID)) <= viewerLimiter.limit

\* C34: GET with viewer_id, POST responses and POST vote of one viewer count
\* against the one bucket "viewer:<id>"; a request that gets past the viewer
\* rate limit takes one unit of it even when it is then refused for its
\* suggestion, emoji, vote value or slug; GET without viewer_id takes none;
\* and at most limit requests of a viewer per window get past it.
C34_SharedViewerBudget ==
    /\ [](ViewerBudgetShared /\ ViewerBudgetPerWindow)
    /\ [][\A r \in ViewerRequestIDs :
             (vg[r].pc = "idle" /\ vg'[r].pc # "idle" /\ vg'[r].req.viewer_id = NoViewer) =>
                vg'[r].pc = "done" /\ viewerLimiter' = viewerLimiter]_vars

\* the same without the count per window
C34_BudgetShared ==
    /\ []ViewerBudgetShared
    /\ [][\A r \in ViewerRequestIDs :
             (vg[r].pc = "idle" /\ vg'[r].pc # "idle" /\ vg'[r].req.viewer_id = NoViewer) =>
                vg'[r].pc = "done" /\ viewerLimiter' = viewerLimiter]_vars

\* the call of slot u is a retry of the rejected call of slot c made when the
\* seconds of Retry-After have passed
RetryOf(u, c) ==
    /\ al.calls[c].pc = "done" /\ ~al.calls[c].allowed
    /\ al.calls[u].pc = "done" /\ al.calls[u].key = al.calls[c].key
    /\ al.calls[u].at >= WaitedFor(c)

\* C35: the whole seconds written to Retry-After and retry_after_seconds are
\* never less than the time left until the bucket resets, so a call repeated
\* with the same key after waiting them is not rejected by the same window.
C35_RetryAfterCoversReset ==
    \A c \in AllowIDs :
       (al.calls[c].pc = "done" /\ ~al.calls[c].allowed) =>
          /\ MillisPerSecond * RetryAfterSeconds(al.calls[c].retryAfter) >= al.calls[c].retryAfter
          /\ \A u \in AllowIDs :
                RetryOf(u, c) =>
                   ~(~al.calls[u].allowed
                     /\ al.calls[u].bucket.resetAt = al.calls[c].bucket.resetAt)

\* a retry made after the wait is rejected by the window that rejected the
\* first call
C35_RejectedAgain ==
    \E c, u \in AllowIDs :
       /\ RetryOf(u, c) /\ ~al.calls[u].allowed
       /\ al.calls[u].at = WaitedFor(c)
       /\ al.calls[u].bucket.resetAt = al.calls[c].bucket.resetAt

\* the number of calls in a set of entries of the log
RECURSIVE LoggedCalls(_)
LoggedCalls(entries) ==
    IF entries = {} THEN 0
    ELSE LET e == CHOOSE x \in entries : TRUE
         IN e.n + LoggedCalls(entries \ {e})

\* the calls of the key allowed with a timestamp from the instant on and less
\* than one window after it
AllowedWithinWindowFrom(key, from) ==
    LoggedCalls({e \in al.log :
                    e.key = key /\ from <= e.at /\ e.at < from + ipLimiter.window})

\* C36: under a limiter with a limit, for every key and every interval
\* shorter than one window, at most 2 x limit of the calls of Allow stamped
\* in the interval return allowed.
C36_TwiceLimit ==
    ipLimiter.limit > 0 =>
       \A e \in al.log : AllowedWithinWindowFrom(e.key, e.at) <= 2 * ipLimiter.limit

\* the key of the bucket of a remote address
RemoteKey(remoteHost) == <<"ip:", remoteHost>>

\* C37: with TRUST_PROXY_HEADERS off, requests of one remote address wait at
\* the limiter with one client address whatever their X-Forwarded-For and
\* X-Real-Ip say, every request that the limiter lets through is counted in
\* the bucket of its remote address, and no bucket is kept for another key.
C37_RemoteAddressOnly ==
    /\ [](~srv.trustProxyHeaders =>
            /\ \A r, u \in GatewayIDs :
                  (/\ gw[r].pc = "mutex" /\ gw[u].pc = "mutex"
                   /\ gw[r].req.remoteHost = gw[u].req.remoteHost)
                  => gw[r].clientIP = gw[u].clientIP
            /\ \A b \in ipLimiter.buckets :
                  \E req \in ProxyInputs : b.key = RemoteKey(req.remoteHost))
    /\ [][~srv.trustProxyHeaders =>
            \A r \in GatewayIDs :
               (gw[r].pc = "mutex" /\ gw'[r].pc # "mutex" /\ gw'[r].charged) =>
                  \E b \in ipLimiter'.buckets :
                     /\ b.key = RemoteKey(gw[r].req.remoteHost)
                     /\ b \notin ipLimiter.buckets]_vars

\* with the headers not trusted, a request that names another address in
\* X-Forwarded-For is answered 429 on the budget that a request of the same
\* remote address without the header has drawn on
C37_Witness ==
    /\ ~srv.trustProxyHeaders
    /\ \E r, u \in GatewayIDs :
          /\ gw[r].pc = "done" /\ gw[r].status = StatusTooManyRequests
          /\ gw[r].req.forwardedFor # << >>
          /\ gw[u].pc = "done" /\ gw[u].charged
          /\ gw[u].req.remoteHost = gw[r].req.remoteHost
          /\ gw[u].req.forwardedFor = << >> /\ gw[u].req.realIP = ""

\* a request that is no preflight and whose Origin is not allowed
ForeignOrigin(req) ==
    req.method # "OPTIONS" /\ req.origin # "" /\ ~isOriginAllowed(req.origin)

\* the record of a request with its Origin header taken away
WithoutOrigin(g) == [g EXCEPT !.req.origin = ""]

WritingHandlers == {"handleCreateDecision", "handleCreateResponse", "handleDecisionVote"}

\* C38: a request that is no preflight and whose Origin is not allowed gets
\* no Access-Control-Allow-Origin header and is never answered "origin not
\* allowed"; it goes on to the rate limiter, and from its arrival to the
\* limiter it is treated as the same request without an Origin header is;
\* nothing but the rate limit, the key check and the route table answers it
\* before its handler; only OPTIONS requests are answered 403 for their
\* origin.
C38_ForeignOriginPasses ==
    /\ [](\A r \in GatewayIDs :
             /\ (gw[r].pc # "idle" /\ ForeignOrigin(gw[r].req)) =>
                   /\ "Access-Control-Allow-Origin" \notin gw[r].headers
                   /\ gw[r].err # "origin not allowed" /\ gw[r].status # StatusForbidden
                   /\ SubSeq(gw[r].gates, 1, 3) =
                         <<"securityHeadersMiddleware", "corsMiddleware", "rateLimitMiddleware">>
                   /\ gw[r].pc = "done" =>
                         \/ gw[r].status = StatusTooManyRequests /\ ~gw[r].charged
                         \/ /\ gw[r].status = StatusUnauthorized /\ gw[r].charged
                            /\ TrimSpace(gw[r].req.apiKey) \notin srv.writeAPIKeys
                         \/ /\ gw[r].status \in {StatusNotFound, StatusMethodNotAllowed}
                            /\ gw[r].charged /\ gw[r].handler = ""
                         \/ gw[r].charged /\ gw[r].handler # ""
             /\ gw[r].err = "origin not allowed" =>
                   gw[r].req.method = "OPTIONS" /\ gw[r].status = StatusForbidden)
    /\ [][\A r \in GatewayIDs :
             (gw[r].pc \in {"idle", "done"} /\ gw'[r].pc = "mutex"
              /\ ForeignOrigin(gw'[r].req)) =>
                WithoutOrigin(gw'[r]) =
                   ServeFrom([IdleGateway EXCEPT !.req = WithoutOrigin(gw'[r]).req], 1)]_vars

\* with write keys configured, a POST of a decision from an origin that is
\* not allowed got past the rate limit and the key check and met the handler
\* that stores decisions
C38_Witness ==
    \E r \in GatewayIDs :
       /\ gw[r].pc = "done" /\ ForeignOrigin(gw[r].req)
       /\ srv.writeAPIKeys # {} /\ ~srv.allowAnyOrigin
       /\ gw[r].req.method = "POST" /\ gw[r].charged
       /\ gw[r].handler = "handleCreateDecision" /\ gw[r].handler \in WritingHandlers
       /\ "Access-Control-Allow-Origin" \notin gw[r].headers

\* the decisions whose close time has passed
ClosedDecisions == {d \in decisions : d.closes_at # Nil /\ now > Deref(d.closes_at)}

\* the steps of the vote endpoint on a request: the close time and the
\* responses play no part in them
C39_VoteStep(t) ==
    /\ (tx[t].pc = "idle" /\ tx'[t].pc # "idle") =>
          \/ tx'[t].pc = "begin"
          \/ tx'[t].pc = "done" /\ tx'[t].status \in {StatusTooManyRequests,
                                                       StatusInternalServerError}
    /\ (tx[t].pc = "commit" /\ tx'[t].pc = "done" /\ tx'[t].status = StatusOK) =>
          /\ decision_votes' # decision_votes
          /\ \A r \in (decision_votes' \ decision_votes) \cup (decision_votes \ decision_votes') :
                r.decision_id = tx[t].decisionID /\ r.voter_viewer_id = tx[t].viewerID

\* C39: the vote endpoint looks neither at the close time nor at the responses:
\* a well-formed vote on a stored decision, closed or not, by a viewer with or
\* without a response, enters toggleDecisionVote unless the limiter or the
\* database refuses, no vote is answered 409, and the commit of the toggle
\* changes the vote of that viewer on that decision; a response whose closed
\* check finds the close time passed is answered 409 and stores nothing
C39_VoteIgnoresClose ==
    /\ [](\A t \in ToggleIDs : tx[t].status # StatusConflict /\ tx[t].err # "decision is closed")
    /\ [][\A t \in ToggleIDs : C39_VoteStep(t)]_vars
    /\ [][\A q \in ResponseIDs : rq[q].pc = "find" /\ rq'[q].pc # "find" => C15_Step(q)]_vars

\* the close time of d2 has passed before any request was made; a viewer with
\* no response on d2 has voted on it, the vote was committed and the votes are
\* no longer those stored earlier, and a response to d2 was answered 409
C39_Witness ==
    /\ \E d \in ClosedDecisions : d.id = "d2"
    /\ decision_votes # StoredEarlier
    /\ \E t \in ToggleIDs :
          /\ tx[t].pc = "done" /\ tx[t].status = StatusOK /\ tx[t].decisionID = "d2"
          /\ ~\E r \in responses : r.decision_id = "d2" /\ r.viewer_id = tx[t].viewerID
    /\ \E q \in ResponseIDs :
          /\ rq[q].pc = "done" /\ rq[q].status = StatusConflict
          /\ rq[q].err = "decision is closed"

(***************************************************************************)
(* Claims about the scores                                                 *)
(***************************************************************************)
SignalsOf(view) ==
    <<view.suggestion_score, view.rating_score, view.comment_sentiment, view.post_vote_score>>

InUnitRange(x) == F64LessEq(F64MinusOne, x) /\ F64LessEq(x, F64One)

\* C17: the recommendation score is the weighted sum 0.35*suggestion +
\* 0.30*rating + 0.20*comment sentiment + 0.15*post vote of four signals each
\* in [-1, 1], clamped to [-1, 1], and the decision is "yes" exactly when
\* score >= 0; so all signals at 1 give score 1.0 and "yes", all at -1 give
\* -1.0 and "no", and no data gives 0 and "yes".
C17_Score ==
    rec.pc = "done" =>
        LET view == rec.result
            signals == SignalsOf(view)
        IN /\ \A k \in 1..4 : InUnitRange(signals[k])
           /\ InUnitRange(view.score)
           /\ view.decision = "yes" <=> ~view.score.neg
           /\ view.decision \in {"yes", "no"}
           /\ (\A k \in 1..4 : signals[k] = F64One) =>
                  view.score = F64One /\ view.decision = "yes"
           /\ (\A k \in 1..4 : signals[k] = F64MinusOne) =>
                  view.score = F64MinusOne /\ view.decision = "no"
           /\ (rec.scanned = << >> /\ decision_votes = StoredEarlier) =>
                  view.score = F64Zero /\ view.decision = "yes"

\* the sum of the weights of the signals that are not 0
RECURSIVE PresentWeight(_, _)
PresentWeight(signals, k) ==
    IF k = 0 THEN F64Zero
    ELSE IF signals[k].man = << >> THEN PresentWeight(signals, k - 1)
    ELSE F64Add(PresentWeight(signals, k - 1),
                <<suggestionWeight, ratingWeight, commentSentimentWeight, postVoteWeight>>[k])

F64Abs(x) == [x EXCEPT !.neg = FALSE]

\* the decision has responses, all of them suggestion 3 and rating 5 without
\* a comment, and no votes
C18_Example ==
    /\ rec.scanned # << >>
    /\ \A i \in 1..Len(rec.scanned) :
          /\ rec.scanned[i].suggestion = 3
          /\ rec.scanned[i].rating = 5
          /\ rec.scanned[i].comment = Nil
    /\ decision_votes = StoredEarlier

\* with no responses the suggestion and rating signals are 0, with no
\* commented response the comment signal is 0, with no votes the post-vote
\* signal is 0; the score is at most the sum of the weights of the other signals
C18_MissingIsZero ==
    LET view == rec.result
    IN /\ rec.scanned = << >> =>
              view.suggestion_score = F64Zero /\ view.rating_score = F64Zero
       /\ (\A i \in 1..Len(rec.scanned) : rec.scanned[i].comment = Nil) =>
              view.comment_sentiment = F64Zero
       /\ decision_votes = StoredEarlier => view.post_vote_score = F64Zero
       /\ F64LessEq(F64Abs(view.score), PresentWeight(SignalsOf(view), 4))

RatingLists(n) ==
    {l \in UNION {[1..k -> {emojiRatings[e] : e \in DOMAIN emojiRatings}] : k \in 0..n} :
        \A i \in 1..(Len(l) - 1) : l[i] <= l[i + 1]}

\* a table of responses to decision d1 with these ratings
RatingTable(l) ==
    {[id |-> i, decision_id |-> "d1", viewer_id |-> ViewerNames[i], rating |-> l[i],
      suggestion |-> 2, emoji |-> << >>, comment |-> Nil] : i \in 1..Len(l)}

\* C19: for every multiset of stored ratings net_sentiment is
\* clamp((avg_rating - 3) / 2, -1, 1): it is within [-1, 1], it never
\* decreases when the average rating increases, and it is 0 at average 3, 1 at
\* average 5 and -1 at average 1 (and -1 for no ratings, whose average is 0).
\* Stated of the result as loadDecisionStats leaves it; loadRecommendation
\* does not change it.
C19_NetSentiment ==
    (stats.pc = "done" /\ rec.pc = "idle") =>
        LET avg == stats.result.avg_rating
            net == stats.result.net_sentiment
        IN /\ InUnitRange(net)
           /\ stats.result.response_count > 0 =>
                  /\ F64LessEq(F64One, avg) /\ F64LessEq(avg, F64FromInt(5))
                  /\ F64Add(F64Add(net, net), F64FromInt(3)) = avg
           /\ stats.result.response_count = 0 => avg = F64Zero /\ net = F64MinusOne
           /\ \A l \in RatingLists(MaxRespondents) :
                  LET other == loadDecisionStats(RatingTable(l), "d1")
                  IN /\ F64LessEq(other.avg_rating, avg) =>
                            F64LessEq(other.net_sentiment, net)
                     /\ F64LessEq(avg, other.avg_rating) =>
                            F64LessEq(net, other.net_sentiment)
           /\ avg = F64FromInt(3) => net = F64Zero
           /\ avg = F64FromInt(5) => net = F64One
           /\ avg = F64One => net = F64MinusOne

\* two responses rated 5 and 3: average 4, net sentiment 0.5
C19_Witness ==
    /\ stats.pc = "done"
    /\ rec.pc = "idle"
    /\ stats.result.rating_counts = <<0, 0, 1, 0, 1>>
    /\ stats.result.avg_rating = F64FromInt(4)
    /\ stats.result.net_sentiment = F64DivInt(F64One, 2)

\* the tokens of a comment: the maximal runs of letters, numbers and
\* apostrophes, each as the pair of its first and last position
TokenRuns(comment) ==
    LET starts == {i \in 1..Len(comment) :
                      /\ IsWordRune(comment[i])
                      /\ i = 1 \/ ~IsWordRune(comment[i - 1])}
        EndOf(i) == CHOOSE j \in i..Len(comment) :
                       /\ \A k \in i..j : IsWordRune(comment[k])
                       /\ j = Len(comment) \/ ~IsWordRune(comment[j + 1])
    IN {<<i, EndOf(i)>> : i \in starts}

\* a token as it is looked up: in lower case and without its apostrophes
TokenText(comment, run) ==
    LET lower == [i \in 1..(run[2] - run[1] + 1) |-> ToLowerRune(comment[run[1] + i - 1])]
    IN SelectSeq(lower, LAMBDA r : r # "'")

Hits(comment, lexicon) ==
    Cardinality({run \in TokenRuns(comment) : TokenText(comment, run) \in lexicon})

\* the comment with every token that is in neither lexicon blanked out
WithoutNeutral(comment) ==
    LET neutral == {run \in TokenRuns(comment) :
                        TokenText(comment, run) \notin
                            positiveSentimentWords \cup negativeSentimentWords}
    IN [i \in 1..Len(comment) |->
           IF \E run \in neutral : i \in run[1]..run[2] THEN " " ELSE comment[i]]

\* tokens that are in neither lexicon
NeutralTokens == {<<"U+00BD">>, <<"n", "o", "r", "i", "s", "k">>}

\* x is the float64 nearest to num / den, for den > 0: twice the distance of
\* the mantissa times den from |num| in units of the last place is at most den
NearestTo(x, num, den) ==
    IF num = 0 THEN x = F64Zero
    ELSE LET scaled == BigMulDigit(x.man, den)
             exact == BigShl(BigFromNat(IF num < 0 THEN -num ELSE num), -x.exp)
             distance == IF BigCmp(scaled, exact) >= 0 THEN BigSub(scaled, exact)
                         ELSE BigSub(exact, scaled)
         IN /\ x.man # << >>
            /\ x.exp < 0
            /\ x.neg = (num < 0)
            /\ BigCmp(BigMulDigit(distance, 2), BigFromNat(den)) <= 0

\* C20: for every comment analyzeCommentSentiment returns (p - n) / (p + n),
\* p and n the numbers of tokens in the positive and in the negative lexicon,
\* and 0 when p + n = 0; the lexicons are disjoint, the result is within
\* [-1, 1], and adding or removing tokens that are in neither lexicon does not
\* change it ("amazing and safe" gives 1.0, "This is a great opportunity, no
\* risk" gives 0).
C20_CommentSentiment ==
    /\ positiveSentimentWords \cap negativeSentimentWords = {}
    /\ cm.pc = "done" =>
          LET p == Hits(cm.comment, positiveSentimentWords)
              n == Hits(cm.comment, negativeSentimentWords)
          IN /\ p + n = 0 => cm.result = F64Zero
             /\ p + n > 0 => NearestTo(cm.result, p - n, p + n)
             /\ InUnitRange(cm.result)
             /\ \A token \in NeutralTokens :
                   /\ analyzeCommentSentiment(cm.comment \o <<" ">> \o token) = cm.result
                   /\ analyzeCommentSentiment(token \o <<",">> \o cm.comment) = cm.result
             /\ analyzeCommentSentiment(WithoutNeutral(cm.comment)) = cm.result
             /\ cm.comment = ExampleAmazing => cm.result = F64One
             /\ cm.comment = ExampleOpportunity => cm.result = F64Zero

\* "good, safe; bad": two positive tokens and a negative one, a third
C20_Witness ==
    /\ cm.pc = "done"
    /\ cm.comment = CommentMixed
    /\ Hits(cm.comment, positiveSentimentWords) = 2
    /\ Hits(cm.comment, negativeSentimentWords) = 1
    /\ cm.result = F64DivInt(F64One, 3)

\* the stored rows of decision d1
ResponsesOfD1 == {r \in responses : r.decision_id = "d1"}
VotesOfD1 == {r \in decision_votes : r.decision_id = "d1"}

\* the statistics of a decision without responses
C40_EmptyStats ==
    /\ stats.result.response_count = 0
    /\ stats.result.avg_rating = F64Zero
    /\ stats.result.rating_counts = <<0, 0, 0, 0, 0>>
    /\ stats.top_emoji = << >>
    /\ stats.result.net_sentiment = F64MinusOne

\* the statement with a score of 0 and a decision "yes" whatever the votes
C40_Original ==
    (rec.pc = "done" /\ ResponsesOfD1 = {}) =>
        /\ C40_EmptyStats
        /\ rec.result.rating_score = F64Zero
        /\ rec.result.score = F64Zero
        /\ rec.result.decision = "yes"

\* C40: for a decision with no responses GET returns response_count 0,
\* avg_rating 0, five zero rating counts, top_emoji "" and net_sentiment -1,
\* and the recommendation's suggestion_score, rating_score and
\* comment_sentiment are 0; its score is postVoteWeight times its
\* post_vote_score: 0 and "yes" when the decision has no votes or votes that
\* add up to 0, above 0 and "yes" when they add up to more, below 0 and "no"
\* when they add up to less
C40_NoResponses ==
    (rec.pc = "done" /\ ResponsesOfD1 = {}) =>
        /\ C40_EmptyStats
        /\ rec.result.suggestion_score = F64Zero
        /\ rec.result.rating_score = F64Zero
        /\ rec.result.comment_sentiment = F64Zero
        /\ rec.result.score = F64Mul(postVoteWeight, rec.result.post_vote_score)
        /\ SumValue(VotesOfD1) = 0 =>
              rec.result.score = F64Zero /\ rec.result.decision = "yes"
        /\ SumValue(VotesOfD1) > 0 =>
              F64Less(F64Zero, rec.result.score) /\ rec.result.decision = "yes"
        /\ SumValue(VotesOfD1) < 0 =>
              F64Less(rec.result.score, F64Zero) /\ rec.result.decision = "no"

\* GET has answered for a decision with no responses and one vote against
C40_Witness ==
    /\ stats.pc = "done" /\ rec.pc = "done"
    /\ ResponsesOfD1 = {}
    /\ Cardinality(VotesOfD1) = 1
    /\ rec.result.post_vote_score = F64MinusOne
    /\ rec.result.score = F64Neg(postVoteWeight)
    /\ rec.result.decision = "no"

(***************************************************************************)
(* Initial states and specifications                                       *)
(***************************************************************************)
InitVotes ==
    /\ decision_votes = StoredEarlier
    /\ tx = [t \in ToggleIDs |-> IdleTx]

InitCreate ==
    /\ decisions = {}
    /\ cr = [c \in CreateIDs |-> IdleCreate]

NoResponses ==
    /\ responses = {}
    /\ rq = [q \in ResponseIDs |-> IdleResponse]

\* no score is being computed
NoScore ==
    /\ stats = IdleStats
    /\ rec = IdleRecommendation
    /\ cm = IdleComment

\* no vote of the earlier generation
NoLegacy == legacy = [votes |-> {}, last |-> NoLegacyRequest]
NoViewerGate ==
    /\ viewerLimiter = newFixedWindowLimiter(ScaledLimit(viewerRateLimitPerMinute),
                                             rateLimitWindow)
    /\ vg = [r \in ViewerRequestIDs |-> IdleViewerRequest]

\* the router at rest
NoGateway ==
    /\ srv = [allowedOrigins |-> DefaultOrigins, allowAnyOrigin |-> FALSE,
              trustProxyHeaders |-> FALSE, writeAPIKeys |-> {}]
    /\ ipLimiter = newFixedWindowLimiter(1, rateLimitWindow)
    /\ gw = [r \in GatewayIDs |-> IdleGateway]
    /\ wall = 0

\* the vote toggle engine
Init ==
    /\ InitVotes
    /\ InitCreate
    /\ NoResponses
    /\ now = 0
    /\ sl = IdleSlug
    /\ NoGateway
    /\ NoScore
    /\ NoLegacy
    /\ NoAllowCalls
    /\ NoViewerGate

Next == NextVotes

Spec == Init /\ [][Next]_vars

\* decision creation
InitCreateSpec ==
    /\ InitVotes
    /\ InitCreate
    /\ NoResponses
    /\ now = 2
    /\ sl = IdleSlug
    /\ NoGateway
    /\ NoScore
    /\ NoLegacy
    /\ NoAllowCalls
    /\ NoViewerGate

SpecCreate == InitCreateSpec /\ [][NextCreate]_vars

\* the slug generator
InitSlugSpec ==
    /\ InitVotes
    /\ InitCreate
    /\ NoResponses
    /\ now = 0
    /\ sl \in {[IdleSlug EXCEPT !.title = t] : t \in TitleInputs}
    /\ NoGateway
    /\ NoScore
    /\ NoLegacy
    /\ NoAllowCalls
    /\ NoViewerGate

SpecSlug == InitSlugSpec /\ [][NextSlug]_vars

\* response submission, on two decisions created earlier
InitResponseSpec ==
    /\ InitVotes
    /\ decisions = StoredDecisions
    /\ cr = [c \in CreateIDs |-> IdleCreate]
    /\ NoResponses
    /\ now = 0
    /\ sl = IdleSlug
    /\ NoGateway
    /\ NoScore
    /\ NoLegacy
    /\ NoAllowCalls
    /\ NoViewerGate

SpecResponses == InitResponseSpec /\ [][NextResponses]_vars
\* the router, under every configuration of the environment
InitGatewaySpec ==
    /\ InitVotes
    /\ InitCreate
    /\ NoResponses
    /\ now = 0
    /\ sl = IdleSlug
    /\ srv \in ServerConfigs
    /\ ipLimiter = newFixedWindowLimiter(ScaledLimit(ipRateLimitPerMinute), rateLimitWindow)
    /\ gw = [r \in GatewayIDs |-> IdleGateway]
    /\ wall = 0
    /\ NoScore
    /\ NoLegacy
    /\ NoAllowCalls
    /\ NoViewerGate

SpecGateway == InitGatewaySpec /\ [][NextGateway]_vars

SpecOrigin == InitGatewaySpec /\ [][NextOrigin]_vars

\* the router with TRUST_PROXY_HEADERS off and on
InitProxySpec ==
    /\ InitVotes
    /\ InitCreate
    /\ NoResponses
    /\ now = 0
    /\ sl = IdleSlug
    /\ srv \in [allowedOrigins : {DefaultOrigins}, allowAnyOrigin : {FALSE},
                 trustProxyHeaders : BOOLEAN, writeAPIKeys : {{}}]
    /\ ipLimiter = newFixedWindowLimiter(ScaledLimit(ipRateLimitPerMinute), rateLimitWindow)
    /\ gw = [r \in GatewayIDs |-> IdleGateway]
    /\ wall = 0
    /\ NoScore
    /\ NoLegacy
    /\ NoAllowCalls
    /\ NoViewerGate

SpecProxy == InitProxySpec /\ [][NextProxy]_vars

\* the scores of a decision, on every table of responses and of votes
InitScoreSpec ==
    /\ decision_votes \in VoteTables
    /\ tx = [t \in ToggleIDs |-> IdleTx]
    /\ InitCreate
    /\ responses \in ScoreTables
    /\ rq = [q \in ResponseIDs |-> IdleResponse]
    /\ now = 0
    /\ sl = IdleSlug
    /\ NoGateway
    /\ NoScore
    /\ NoLegacy
    /\ NoAllowCalls
    /\ NoViewerGate

SpecScore == InitScoreSpec /\ [][NextScore]_vars

\* the sentiment of a comment
InitCommentSpec ==
    /\ InitVotes
    /\ InitCreate
    /\ NoResponses
    /\ now = 0
    /\ sl = IdleSlug
    /\ NoGateway
    /\ NoScore
    /\ NoLegacy
    /\ NoAllowCalls
    /\ NoViewerGate

SpecComment == InitCommentSpec /\ [][NextComment]_vars
\* the vote handler, and the three writing handlers, on the same two decisions
SpecVoteHandler == InitResponseSpec /\ [][NextVoteHandler]_vars

\* the server at any minute of the clock, before or after the close of d2
InitClosedSpec ==
    /\ InitVotes
    /\ decisions = StoredDecisions
    /\ cr = [c \in CreateIDs |-> IdleCreate]
    /\ NoResponses
    /\ now \in 0..MaxClock
    /\ sl = IdleSlug
    /\ NoGateway
    /\ NoScore
    /\ NoLegacy
    /\ NoAllowCalls
    /\ NoViewerGate

SpecClosed == InitClosedSpec /\ [][NextClosed]_vars

InitAPISpec ==
    /\ decision_votes = StoredVotes
    /\ tx = [t \in ToggleIDs |-> IdleTx]
    /\ decisions = StoredDecisions
    /\ cr = [c \in CreateIDs |-> IdleCreate]
    /\ responses = StoredResponses
    /\ rq = [q \in ResponseIDs |-> IdleResponse]
    /\ now = 0
    /\ sl = IdleSlug
    /\ NoGateway
    /\ NoScore
    /\ NoLegacy
    /\ NoAllowCalls
    /\ NoViewerGate

SpecAPI == InitAPISpec /\ [][NextAPI]_vars

\* votes on responses, the earlier generation
SpecLegacy == Init /\ [][NextLegacy]_vars

\* the vote summaries of toggles and of reads
SpecSummary == InitResponseSpec /\ [][NextSummary]_vars

\* calls of Allow on one limiter, built with or without a limit
InitLimiterSpec ==
    /\ InitVotes
    /\ InitCreate
    /\ NoResponses
    /\ now = 0
    /\ sl = IdleSlug
    /\ srv = [allowedOrigins |-> DefaultOrigins, allowAnyOrigin |-> FALSE,
              trustProxyHeaders |-> FALSE, writeAPIKeys |-> {}]
    /\ ipLimiter \in {newFixedWindowLimiter(n, rateLimitWindow) : n \in 0..MaxLimit}
    /\ gw = [r \in GatewayIDs |-> IdleGateway]
    /\ wall = 0
    /\ NoScore
    /\ NoLegacy
    /\ NoAllowCalls
    /\ NoViewerGate

SpecLimiter == InitLimiterSpec /\ [][NextLimiter]_vars

SpecRetry == InitLimiterSpec /\ [][NextRetry]_vars

SpecBurst == InitLimiterSpec /\ [][NextBurst]_vars

\* requests of the three handlers that take a viewer id, on one limiter, built
\* with the limit of the code scaled down to 1..MaxLimit requests per window
InitViewerGateSpec ==
    /\ InitVotes
    /\ InitCreate
    /\ NoResponses
    /\ now = 0
    /\ sl = IdleSlug
    /\ NoGateway
    /\ NoScore
    /\ NoLegacy
    /\ NoAllowCalls
    /\ viewerLimiter \in {newFixedWindowLimiter(n, rateLimitWindow) :
                             n \in 1..ScaledLimit(viewerRateLimitPerMinute)}
    /\ vg = [r \in ViewerRequestIDs |-> IdleViewerRequest]

SpecViewerGate == InitViewerGateSpec /\ [][NextViewerGate]_vars

====
